---- MODULE Spec2Model ----
(***************************************************************************)
(* tak2msc: relay of WinTAK CoT XML events into Message Machine templates. *)
(*                                                                         *)
(* The module models python/phase2/tak2mm.py: the CoT XML listener thread, *)
(* the CP listener thread, the template listener thread and the main       *)
(* (dispatcher) loop, as they interleave on the program's global           *)
(* variables and on the two directories TAK2MSC_PATH and IMPORTS_PATH.     *)
(*                                                                         *)
(* Text is a sequence of tokens (strings): a token never holds white       *)
(* space unless it is a white-space token, and the markers the code        *)
(* searches for are sequences of whole tokens, so "marker in line" is the  *)
(* search for a contiguous run of tokens.  The empty string '' and the     *)
(* empty list [] are both the empty sequence.                              *)
(***************************************************************************)
EXTENDS Integers, Sequences, FiniteSets, TLC

\* ------------------------------------------------------------------ bounds
\* Number of files Message Creator writes into TAK2MSC_PATH in one run.
MaxDeposits == 1

\* --------------------------------------------------------------- constants
NL == "\n"
SP == " "
WhiteSpace == {SP, NL, "\t"}

XML_HEADER == <<"<?xml", SP, "version=\"1.0\"", SP, "encoding=\"UTF-8\"?>">>
EVENT_HEADER == <<"<event", SP, "version=\"2.0\"", SP>>
SA_EVENT_TYPE == <<"type=\"a-f-G-U-C">>
PD_EVENT_TYPE == <<"parent_callsign=">>

SUBJ_MARK == <<"SUBJ/COTXML//">>
REMARKS_OPEN == <<"GENTEXT/REMARKS/">>
BLANK_REMARKS == <<"GENTEXT/REMARKS/", "-", "//">>
BT_MARK == <<"BT", NL>>
DIGEST_OPEN == <<"[DIGEST:">>

\* '' as a text, [] as a list, and '' as a path.
Empty == <<>>
NoFile == 0

\* tak2cp.py:44-45
TAK_XML_HEADER ==
    <<"<?xml", SP, "version=\"1.0\"", SP, "encoding=\"UTF-8\"", SP, "standalone=\"yes\"?>">>
COT_EVENT_HEADER == <<"<event", SP, "version=\"2.0\"", SP>>

\* The text of an element that has none.
None == "None"
NoText == <<None>>

\* What a name bound to ET.SubElement(header, tag) refers to.
Element(tag) == <<"<Element", tag, ">">>

\* ----------------------------------------------------------- text helpers
\* pat in line
Contains(line, pat) ==
    \E i \in 1..(Len(line) - Len(pat) + 1) : SubSeq(line, i, i + Len(pat) - 1) = pat

\* line.replace('\n', ' ')
ReplaceNL(line) == [i \in 1..Len(line) |-> IF line[i] = NL THEN SP ELSE line[i]]

\* ' '.join(s.split()): leading and trailing white space dropped, every
\* inner run of white space replaced by one space.
RECURSIVE JoinSplit(_, _, _)
JoinSplit(s, acc, gap) ==
    IF s = <<>> THEN acc
    ELSE IF Head(s) \in WhiteSpace THEN JoinSplit(Tail(s), acc, acc # <<>>)
    ELSE JoinSplit(Tail(s), (IF gap THEN Append(acc, SP) ELSE acc) \o <<Head(s)>>, FALSE)

RECURSIVE Flat(_)
Flat(s) == IF s = <<>> THEN "" ELSE Head(s) \o Flat(Tail(s))

\* hashlib.md5(bytes(s, 'utf-8')).hexdigest().upper(): the hash is not
\* computed; it is the one token that is determined by the characters of s.
MD5HexUpper(s) == "MD5[" \o Flat(s) \o "]"

\* ------------------------------------------------------------- pure code
is_cot_template(ls) ==
    LET cotXmlSubject == \E i \in 1..Len(ls) : Contains(ls[i], SUBJ_MARK)
        blankRemarks == \E i \in 1..Len(ls) : Contains(ls[i], BLANK_REMARKS)
    IN  cotXmlSubject /\ blankRemarks

RemarksLine(cotString) == REMARKS_OPEN \o cotString \o <<"//", NL>>

DigestLine(bigString) == DIGEST_OPEN \o <<MD5HexUpper(JoinSplit(bigString, <<>>, FALSE)), "]", NL>>

\* A compositor that adds each line after the end sentinel, the digest line
\* too, to the text it hashes.
RECURSIVE digest_loop_hashes_tail(_, _, _, _, _, _, _)
digest_loop_hashes_tail(ls, cotString, i, bigString, st, en, past) ==
    IF i > Len(ls) THEN ls
    ELSE IF ~st /\ ~en THEN
        digest_loop_hashes_tail(ls, cotString, i + 1, bigString, Contains(ls[i], BT_MARK), en, past)
    ELSE IF st /\ ~en /\ ~past THEN
        digest_loop_hashes_tail(ls, cotString, i + 1, bigString, st, en, TRUE)
    ELSE IF st /\ ~en /\ past THEN
        IF Contains(ls[i], BT_MARK) THEN
            digest_loop_hashes_tail(ls, cotString, i + 1, bigString, st, TRUE, past)
        ELSE IF Contains(ls[i], BLANK_REMARKS) THEN
            digest_loop_hashes_tail([ls EXCEPT ![i] = RemarksLine(cotString)], cotString, i + 1,
                                    bigString \o ReplaceNL(RemarksLine(cotString)), st, en, past)
        ELSE
            digest_loop_hashes_tail(ls, cotString, i + 1, bigString \o ReplaceNL(ls[i]),
                                    st, en, past)
    ELSE
        IF Contains(ls[i], DIGEST_OPEN) THEN
            digest_loop_hashes_tail([ls EXCEPT ![i] = DigestLine(bigString \o ReplaceNL(ls[i]))],
                                    cotString, i + 1, bigString \o ReplaceNL(ls[i]), st, en, past)
        ELSE
            digest_loop_hashes_tail(ls, cotString, i + 1, bigString \o ReplaceNL(ls[i]),
                                    st, en, past)

\* The loop of calculate_digest from index i on: ls is the list as mutated so
\* far, st/en/past are startOfString/endOfString/pastClassifier.
RECURSIVE digest_loop(_, _, _, _, _, _, _)
digest_loop(ls, cotString, i, bigString, st, en, past) ==
    IF i > Len(ls) THEN ls
    ELSE IF ~st /\ ~en THEN
        digest_loop(ls, cotString, i + 1, bigString, Contains(ls[i], BT_MARK), en, past)
    ELSE IF st /\ ~en /\ ~past THEN
        digest_loop(ls, cotString, i + 1, bigString, st, en, TRUE)
    ELSE IF st /\ ~en /\ past THEN
        IF Contains(ls[i], BT_MARK) THEN
            digest_loop(ls, cotString, i + 1, bigString, st, TRUE, past)
        ELSE IF Contains(ls[i], BLANK_REMARKS) THEN
            digest_loop([ls EXCEPT ![i] = RemarksLine(cotString)], cotString, i + 1,
                        bigString \o ReplaceNL(RemarksLine(cotString)), st, en, past)
        ELSE
            digest_loop(ls, cotString, i + 1, bigString \o ReplaceNL(ls[i]), st, en, past)
    ELSE
        IF Contains(ls[i], DIGEST_OPEN) THEN
            digest_loop([ls EXCEPT ![i] = DigestLine(bigString)], cotString, i + 1,
                        JoinSplit(bigString, <<>>, FALSE), st, en, past)
        ELSE
            digest_loop(ls, cotString, i + 1, bigString, st, en, past)

calculate_digest(ls, cotString) == digest_loop(ls, cotString, 1, <<>>, FALSE, FALSE, FALSE)

\* ------------------------------------------------------------------ inputs
Line(toks) == toks \o <<NL>>

\* Files Message Creator can write: a blank CoT template, one without the
\* subject line, one without the blank remarks line.
TemplateBlank ==
    << Line(<<"SUBJ/COTXML//">>), Line(<<"BT">>), Line(<<"UNCLAS">>),
       Line(BLANK_REMARKS), Line(<<"BT">>), Line(<<"[DIGEST:", "]">>) >>
TemplateNoSubject ==
    << Line(<<"BT">>), Line(<<"UNCLAS">>), Line(BLANK_REMARKS), Line(<<"BT">>),
       Line(<<"[DIGEST:", "]">>) >>
TemplateNoRemarks ==
    << Line(<<"SUBJ/COTXML//">>), Line(<<"BT">>), Line(<<"UNCLAS">>),
       Line(<<"GENTEXT/REMARKS/", "FILLED", "//">>), Line(<<"BT">>), Line(<<"[DIGEST:", "]">>) >>
Templates == {TemplateBlank, TemplateNoSubject, TemplateNoRemarks}

\* Event elements (the second line of a datagram).
EventSA(n) == EVENT_HEADER \o SA_EVENT_TYPE \o <<"\"", SP, n, "/>">>
EventPD(n) == EVENT_HEADER \o <<"type=\"a-u-G\"", SP>> \o PD_EVENT_TYPE \o <<n, "/>">>
EventBoth(n) == EVENT_HEADER \o SA_EVENT_TYPE \o <<"\"", SP>> \o PD_EVENT_TYPE \o <<n, "/>">>
EventOther == EVENT_HEADER \o <<"type=\"b-t-f\"", "/>">>

\* Datagrams as data_string.split('\n') sees them: a list of lines.
Datagrams ==
    { <<XML_HEADER, EventSA("1")>>,
      <<XML_HEADER, EventPD("1")>>,
      <<XML_HEADER, EventBoth("3")>>,
      <<XML_HEADER, EventOther>>,
      <<XML_HEADER, <<"junk">> >>,
      <<EventSA("1")>> }


\* ------------------------------------------------------------------- state
VARIABLES
    started,              \* tak2mm.py:51  the running flag
    data_from_cp,         \* tak2mm.py:52  text waiting to be sent to WinTAK
    myPosition_event,     \* tak2mm.py:53  the Position slot
    pointDropper_event,   \* tak2mm.py:54  the PointDrop slot
    messageCreator_file,  \* tak2mm.py:55  path of the template taken (a file id)
    lines,                \* tak2mm.py:56  lines of the template taken
    handoff,              \* files of TAK2MSC_PATH: file id -> lines
    imports,              \* files moved into IMPORTS_PATH: file id -> lines
    pcMain,               \* position of the main loop
    template_exists,      \* tak2mm.py:381 local of the main loop
    sa_event_exists,      \* tak2mm.py:382
    pd_event_exists,      \* tak2mm.py:383
    ret,                  \* list returned by calculate_digest, not yet stored
    pcCot,                \* position of cotXmlListener
    pcCp,                 \* position of cpListener
    pcTemplate,           \* position of templateListener
    nDeposits,            \* files written by Message Creator so far
    orig,                 \* history: file id -> lines as Message Creator wrote them
    firstArr,             \* history: slot -> first event offered to it since its last clear
    passed,               \* history: slot -> its event was given to calculate_digest
    removed               \* history: ids deleted by templateListener line 297

VARIABLES
    program,              \* the script that runs: "tak2mm" or "tak2cp"
    exit_status,          \* exit status of the process, "running" until it ends
    data_to_cp,           \* tak2cp.py:53  event text waiting to be sent to CP
    v3protocol,           \* tak2cp.py:61-86  texts of the elements of the envelope
    modemDataRate,        \* tak2cp.py:54,72  what the global name refers to
    modemInterleave,      \* tak2cp.py:55,73
    keyList,              \* tak2cp.py:57
    nEvents,              \* tak2cp: datagrams with an event WinTAK has sent so far
    nRecords,             \* tak2cp: 'data' records with an event CP has sent so far
    payload_data_from_cp, \* tak2cp.py:178  local of cpListener
    records_left,         \* tak2cp.py:185  records of the batch still to come
    to_wintak,            \* history: the texts given to sock.sendto, tak2cp.py:137
    to_cp,                \* history: the texts given to sock.sendall, tak2cp.py:232
    batch_progress        \* history: what the loop of line 185 has done so far

VARIABLES
    myPosition_var,         \* tak2msc.py:83  the Position event waiting to be sent
    pntDropper_var,         \* tak2msc.py:86  the Point Dropper event waiting to be sent
    myPositionStatus_entry, \* tak2msc.py:387 text of the Position status field
    pointDropStatus_entry,  \* tak2msc.py:395 text of the Point Dropper status field
    msgSerial_var,          \* tak2msc.py:68  the message serial number
    fromAddress_var,        \* tak2msc.py:71
    toAddress_var,          \* tak2msc.py:74
    message_type,           \* tak2msc.py:276 argument of the sendToMsgMachine under way
    to_msg_machine          \* history: the texts given to s.sendall, tak2msc.py:340

globals == <<started, data_from_cp, myPosition_event, pointDropper_event,
             messageCreator_file, lines>>
files == <<handoff, imports>>
mainLocals == <<pcMain, template_exists, sa_event_exists, pd_event_exists, ret>>
history == <<nDeposits, orig, firstArr, passed, removed>>
process == <<program, exit_status>>
tak2cp_state == <<data_to_cp, v3protocol, modemDataRate, modemInterleave, keyList,
                  nEvents, nRecords, payload_data_from_cp, records_left,
                  to_wintak, to_cp, batch_progress>>
tak2msc_state == <<myPosition_var, pntDropper_var, myPositionStatus_entry, pointDropStatus_entry,
                   msgSerial_var, fromAddress_var, toAddress_var, message_type, to_msg_machine>>
vars == <<globals, files, mainLocals, pcCot, pcCp, pcTemplate, history, process, tak2cp_state,
          tak2msc_state>>

Slots == {"sa", "pd"}

\* A main loop that does not look at its threads.
is_alive_unchecked(pc) == TRUE

\* Thread.is_alive()
is_alive(pc) == pc \notin {"done", "dead", "unbound"}

\* A function without the keys outside keep.
Restrict(f, keep) == [k \in (DOMAIN f) \cap keep |-> f[k]]

\* tak2cp.py:53-57, 61-86  the globals and the envelope document as the
\* module-level code leaves them
\* tak2msc.py:56-86, 476  the variables of the window after the start-up code
tak2msc_globals ==
    /\ myPosition_var = Empty
    /\ pntDropper_var = Empty
    /\ myPositionStatus_entry = "WAITING FOR MESSAGE"
    /\ pointDropStatus_entry = "WAITING FOR MESSAGE"
    /\ msgSerial_var = 0
    /\ fromAddress_var = ""
    /\ toAddress_var = ""
    /\ message_type = ""
    /\ to_msg_machine = {}

tak2cp_globals ==
    /\ data_to_cp = Empty
    /\ v3protocol = [POSITIONID |-> <<"MessageMachine">>, COMMAND |-> <<"data">>,
                     PRIORITY |-> <<"4">>, COMPRESS |-> <<"1">>, ENCRYPT |-> <<"1">>,
                     ENCRYPTIONKEY |-> <<"ZYG25A">>, SOURCESTATION |-> <<"AAR9EN">>,
                     DESTINATIONSTATION |-> <<"ORANGEMAIN">>, ALEADDRESS |-> NoText,
                     MODEMDATARATE |-> NoText, MODEMINTERLEAVE |-> NoText,
                     CHECKSUM |-> <<"PASS">>, DATA |-> NoText]
    /\ modemDataRate = Element("MODEMDATARATE")
    /\ modemInterleave = Element("MODEMINTERLEAVE")
    /\ keyList = Empty
    /\ nEvents = 0
    /\ nRecords = 0
    /\ payload_data_from_cp = Empty
    /\ records_left = 0
    /\ to_wintak = {}
    /\ to_cp = {}
    /\ batch_progress = "start"

\* State after the startup code of tak2mm.py:331-370: the directory cleaned,
\* started set, the three threads started.
Init ==
    /\ program = "tak2mm"
    /\ exit_status = "running"
    /\ tak2cp_globals
    /\ tak2msc_globals
    /\ started = TRUE
    /\ data_from_cp = Empty
    /\ myPosition_event = Empty
    /\ pointDropper_event = Empty
    /\ messageCreator_file = NoFile
    /\ lines = Empty
    /\ handoff = <<>>
    /\ imports = <<>>
    /\ pcMain = "events"
    /\ template_exists = FALSE
    /\ sa_event_exists = FALSE
    /\ pd_event_exists = FALSE
    /\ ret = Empty
    /\ pcCot = "recv"
    /\ pcCp = "recv"
    /\ pcTemplate = "loop"
    /\ nDeposits = 0
    /\ orig = <<>>
    /\ firstArr = [s \in Slots |-> Empty]
    /\ passed = [s \in Slots |-> FALSE]
    /\ removed = {}

\* ------------------------------------------------------------- environment
\* Message Creator writes a file into TAK2MSC_PATH.
Deposit ==
    /\ nDeposits < MaxDeposits
    /\ \E t \in Templates :
        /\ handoff' = (nDeposits + 1 :> t) @@ handoff
        /\ orig' = Append(orig, t)
    /\ nDeposits' = nDeposits + 1
    /\ UNCHANGED <<globals, imports, mainLocals, pcCot, pcCp, pcTemplate,
                   firstArr, passed, removed>>
    /\ UNCHANGED <<process, tak2msc_state, tak2cp_state>>

\* ------------------------------------------------------- cotXmlListener
\* tak2mm.py:150  while started: the loop is left when the flag is cleared
cotXmlListener_exit ==
    /\ pcCot = "recv" /\ ~started
    /\ pcCot' = "done"
    /\ UNCHANGED <<globals, files, mainLocals, pcCp, pcTemplate, history>>
    /\ UNCHANGED <<process, tak2msc_state, tak2cp_state>>

\* EVENT_HEADER in data_string
has_event_header(d) == \E i \in 1..Len(d) : Contains(d[i], EVENT_HEADER)

\* The PointDrop test without the occupancy condition: the overwrite policy.
accept_pd_overwrite(body) == Contains(body, PD_EVENT_TYPE)

\* tak2mm.py:164  the test that guards the PointDrop slot
accept_pd(body) == Contains(body, PD_EVENT_TYPE) /\ pointDropper_event = Empty

\* The Position test without the occupancy condition: the overwrite policy.
accept_sa_overwrite(body) == Contains(body, SA_EVENT_TYPE)

\* tak2mm.py:167  the test that guards the Position slot
accept_sa(body) == Contains(body, SA_EVENT_TYPE) /\ myPosition_event = Empty

\* The slot whose test the event body passes: the if, then the elif.
target(body) ==
    IF accept_pd(body) THEN "pd" ELSE IF accept_sa(body) THEN "sa" ELSE "none"

\* The slots a body is offered to: the slot of each test that finds its marker.
offered(body) ==
    {s \in Slots : \/ s = "pd" /\ Contains(body, PD_EVENT_TYPE)
                   \/ s = "sa" /\ ~accept_pd(body) /\ Contains(body, SA_EVENT_TYPE)}

\* tak2mm.py:164-169  the event body is stored in the slot whose test it passes
deposit(body) ==
    /\ pointDropper_event' = IF target(body) = "pd" THEN body ELSE pointDropper_event
    /\ myPosition_event' = IF target(body) = "sa" THEN body ELSE myPosition_event
    /\ passed' = [s \in Slots |-> IF target(body) = s THEN FALSE ELSE passed[s]]
    /\ firstArr' = [s \in Slots |->
                      IF s \in offered(body) /\ firstArr[s] = Empty THEN body ELSE firstArr[s]]

\* tak2mm.py:150-169  a datagram d is received.  Without the event header it
\* is dropped; with the header and one line only there is no xml[1], and the
\* IndexError, which nothing catches, ends the thread.
cotXmlListener_recv(d) ==
    /\ pcCot = "recv" /\ started
    /\ IF ~has_event_header(d) THEN
            UNCHANGED <<pcCot, pointDropper_event, myPosition_event, firstArr, passed>>
       ELSE IF Len(d) < 2 THEN
            /\ pcCot' = "dead"
            /\ UNCHANGED <<pointDropper_event, myPosition_event, firstArr, passed>>
       ELSE
            /\ deposit(d[2])
            /\ UNCHANGED pcCot
    /\ UNCHANGED <<started, data_from_cp, messageCreator_file, lines,
                   files, mainLocals, pcCp, pcTemplate,
                   nDeposits, orig, removed>>
    /\ UNCHANGED <<process, tak2msc_state, tak2cp_state>>

\* tak2mm.py:170-182  socket.timeout: what waits in data_from_cp is sent to
\* WinTAK and cleared, whether the send succeeds or not.
cotXmlListener_timeout ==
    /\ pcCot = "recv" /\ started
    /\ data_from_cp' = Empty
    /\ UNCHANGED <<started, myPosition_event, pointDropper_event, messageCreator_file,
                   lines, files, mainLocals, pcCot, pcCp, pcTemplate, history>>
    /\ UNCHANGED <<process, tak2msc_state, tak2cp_state>>

\* ------------------------------------------------------------- cpListener
CpCommands == {"status", "data"}

\* A record between two XML prologs: it parses or not, and carries a command.
CpRecords == [wellformed : BOOLEAN, command : CpCommands]

CpBatches == [1..1 -> CpRecords] \cup [1..2 -> CpRecords]

\* tak2mm.py:248  command_ == 'data' and COT_EVENT_HEADER in ...: the name
\* COT_EVENT_HEADER is defined nowhere in tak2mm.py, so the first record
\* that parses with the command 'data' raises NameError, which nothing
\* catches.
cp_raises(batch) == \E i \in 1..Len(batch) : batch[i].wellformed /\ batch[i].command = "data"

\* tak2mm.py:211  while started: the loop is left when the flag is cleared
cpListener_exit ==
    /\ pcCp = "recv" /\ ~started
    /\ pcCp' = "done"
    /\ UNCHANGED <<globals, files, mainLocals, pcCot, pcTemplate, history>>
    /\ UNCHANGED <<process, tak2msc_state, tak2cp_state>>

\* tak2mm.py:211-259  one recv that carries the records of batch: the thread
\* ends at the first record that raises, before line 256 assigns data_from_cp
cpListener_batch(batch) ==
    /\ pcCp = "recv" /\ started
    /\ pcCp' = IF cp_raises(batch) THEN "dead" ELSE "recv"
    /\ UNCHANGED <<globals, files, mainLocals, pcCot, pcTemplate, history>>
    /\ UNCHANGED <<process, tak2msc_state, tak2cp_state>>

\* tak2mm.py:211-261  one recv and the records it carries, or a timeout
cpListener_recv == \E batch \in CpBatches : cpListener_batch(batch)

\* -------------------------------------------------------- templateListener
\* tak2mm.py:281  while started: the loop is left when the flag is cleared
templateListener_exit ==
    /\ pcTemplate = "loop" /\ ~started
    /\ pcTemplate' = "cleanup"
    /\ UNCHANGED <<globals, files, mainLocals, pcCot, pcCp, history>>
    /\ UNCHANGED <<process, tak2msc_state, tak2cp_state>>

\* tak2mm.py:281-283  len(os.listdir(TAK2MSC_PATH)) > 0 and len(lines) == 0;
\* otherwise the sleep of line 303
templateListener_poll ==
    /\ pcTemplate = "loop" /\ started
    /\ pcTemplate' = IF DOMAIN handoff # {} /\ lines = Empty THEN "take" ELSE "loop"
    /\ UNCHANGED <<globals, files, mainLocals, pcCot, pcCp, history>>
    /\ UNCHANGED <<process, tak2msc_state, tak2cp_state>>

\* tak2mm.py:285-293  os.listdir(TAK2MSC_PATH)[0] is any file of the
\* directory (IndexError, which nothing catches, when it is empty by now);
\* messageCreator_file names it; open and readlines give lines, and on an
\* error the loop continues with lines as it was.
templateListener_take ==
    /\ pcTemplate = "take"
    /\ IF DOMAIN handoff = {}
          THEN pcTemplate' = "dead" /\ UNCHANGED <<messageCreator_file, lines>>
          ELSE \E f \in DOMAIN handoff, ok \in BOOLEAN :
                /\ messageCreator_file' = f
                /\ IF ok THEN lines' = handoff[f] /\ pcTemplate' = "check"
                         ELSE UNCHANGED lines /\ pcTemplate' = "loop"
    /\ UNCHANGED <<started, data_from_cp, myPosition_event, pointDropper_event,
                   files, mainLocals, pcCot, pcCp, history>>
    /\ UNCHANGED <<process, tak2msc_state, tak2cp_state>>

\* tak2mm.py:295  if not is_cot_template(lines), on the global lines
templateListener_check ==
    /\ pcTemplate = "check"
    /\ pcTemplate' = IF is_cot_template(lines) THEN "loop" ELSE "remove"
    /\ UNCHANGED <<globals, files, mainLocals, pcCot, pcCp, history>>
    /\ UNCHANGED <<process, tak2msc_state, tak2cp_state>>

\* tak2mm.py:297  os.remove(messageCreator_file), outside any try: an error
\* (the file is gone, the path is '', the file is locked) ends the thread.
templateListener_remove_outcome(ok) ==
    /\ pcTemplate = "remove"
    /\ IF ok /\ messageCreator_file \in DOMAIN handoff
           THEN /\ handoff' = Restrict(handoff, DOMAIN handoff \ {messageCreator_file})
                /\ removed' = removed \cup {messageCreator_file}
                /\ pcTemplate' = "clear"
           ELSE /\ pcTemplate' = "dead"
                /\ UNCHANGED <<handoff, removed>>
    /\ UNCHANGED <<globals, imports, mainLocals, pcCot, pcCp,
                   nDeposits, orig, firstArr, passed>>
    /\ UNCHANGED <<process, tak2msc_state, tak2cp_state>>

templateListener_remove == \E ok \in BOOLEAN : templateListener_remove_outcome(ok)

\* Where the thread goes after it has deleted a file that is no template.
\* tak2mm.py:301  break: out of the while loop, to the code of lines 305-315.
after_delete == "cleanup"

\* tak2mm.py:298-301  messageCreator_file = '', lines = [], then break
templateListener_clear ==
    /\ pcTemplate = "clear"
    /\ messageCreator_file' = NoFile
    /\ lines' = Empty
    /\ pcTemplate' = after_delete
    /\ UNCHANGED <<started, data_from_cp, myPosition_event, pointDropper_event,
                   files, mainLocals, pcCot, pcCp, history>>
    /\ UNCHANGED <<process, tak2msc_state, tak2cp_state>>

\* The files left by a pass that deletes every file of TAK2MSC_PATH: those
\* whose os.remove raised (the error is printed and the pass goes on).
DeletePass(keep) ==
    handoff' = Restrict(handoff, keep)

\* tak2mm.py:305-315  the files of the directory are deleted on the way out
templateListener_cleanup_pass(keep) ==
    /\ pcTemplate = "cleanup"
    /\ DeletePass(keep)
    /\ pcTemplate' = "done"
    /\ UNCHANGED <<globals, imports, mainLocals, pcCot, pcCp,
                   nDeposits, orig, firstArr, passed, removed>>
    /\ UNCHANGED <<process, tak2msc_state, tak2cp_state>>

templateListener_cleanup ==
    \E keep \in SUBSET (DOMAIN handoff) : templateListener_cleanup_pass(keep)


\* ------------------------------------------------------ main loop (__main__)
Slot(s) == IF s = "sa" THEN myPosition_event ELSE pointDropper_event

\* A dispatcher that looks at the PointDrop slot only.
branch_pd_only(te, sa, pd) == IF te /\ pd THEN "pd" ELSE "none"

\* A dispatcher that takes the PointDrop event first.
branch_pd_first(te, sa, pd) == IF te /\ pd THEN "pd" ELSE IF te /\ sa THEN "sa" ELSE "none"

\* tak2mm.py:387-396  the branch the if/elif takes
branch(te, sa, pd) == IF te /\ sa THEN "sa" ELSE IF te /\ pd THEN "pd" ELSE "none"

\* The locals of an iteration, as they are before the iteration assigns them.
ResetLocals ==
    /\ template_exists' = FALSE
    /\ sa_event_exists' = FALSE
    /\ pd_event_exists' = FALSE
    /\ ret' = Empty

\* tak2mm.py:371-387,392,398  one pass of the while loop up to the branch:
\* the running flag is read; a thread that is not alive stops the program;
\* lines and the two slots are looked at, and with nothing to send the pass
\* ends in the sleep of line 419.
main_events ==
    /\ pcMain = "events"
    /\ IF ~started THEN
            /\ pcMain' = "done"
            /\ UNCHANGED <<started, template_exists, sa_event_exists, pd_event_exists, ret>>
       ELSE IF ~is_alive(pcCot) \/ ~is_alive(pcCp) \/ ~is_alive(pcTemplate) THEN
            /\ pcMain' = "done"
            /\ started' = FALSE
            /\ UNCHANGED <<template_exists, sa_event_exists, pd_event_exists, ret>>
       ELSE LET te == lines # Empty
                sa == myPosition_event # Empty
                pd == pointDropper_event # Empty
            IN  /\ UNCHANGED started
                /\ IF branch(te, sa, pd) = "none"
                      THEN pcMain' = "events" /\ ResetLocals
                      ELSE /\ pcMain' = "compose"
                           /\ template_exists' = te
                           /\ sa_event_exists' = sa
                           /\ pd_event_exists' = pd
                           /\ UNCHANGED ret
    /\ UNCHANGED <<data_from_cp, myPosition_event, pointDropper_event, messageCreator_file,
                   lines, files, pcCot, pcCp, pcTemplate, history>>
    /\ UNCHANGED <<process, tak2msc_state, tak2cp_state>>

\* tak2mm.py:389/394  calculate_digest(lines, <slot>): the list that lines
\* names is changed in place, so the other threads see the new lines before
\* the assignment of the result.
main_compose ==
    /\ pcMain = "compose"
    /\ LET s == branch(template_exists, sa_event_exists, pd_event_exists)
       IN  /\ ret' = calculate_digest(lines, Slot(s))
           /\ lines' = ret'
           /\ passed' = [passed EXCEPT ![s] = TRUE]
    /\ pcMain' = "clear_event"
    /\ UNCHANGED <<started, data_from_cp, myPosition_event, pointDropper_event,
                   messageCreator_file, files, template_exists, sa_event_exists,
                   pd_event_exists, pcCot, pcCp, pcTemplate,
                   nDeposits, orig, firstArr, removed>>
    /\ UNCHANGED <<process, tak2msc_state, tak2cp_state>>

\* A dispatcher that leaves the slot as it is after composing.
cleared_slots_kept(s) == [sa |-> myPosition_event, pd |-> pointDropper_event]

\* A dispatcher that clears both slots after composing.
cleared_slots_both(s) == [sa |-> Empty, pd |-> Empty]

\* tak2mm.py:390/395  the slots after the statement that clears the slot of
\* branch s
cleared_slots(s) ==
    [sa |-> IF s = "sa" THEN Empty ELSE myPosition_event,
     pd |-> IF s = "pd" THEN Empty ELSE pointDropper_event]

\* tak2mm.py:389-391 / 394-396  the list returned is assigned to lines, the
\* slot is cleared, event_ready = True
main_clear_event ==
    /\ pcMain = "clear_event"
    /\ lines' = ret
    /\ LET s == branch(template_exists, sa_event_exists, pd_event_exists)
       IN  /\ myPosition_event' = cleared_slots(s).sa
           /\ pointDropper_event' = cleared_slots(s).pd
           /\ firstArr' = [t \in Slots |-> IF cleared_slots(s)[t] = Empty THEN Empty
                                                                        ELSE firstArr[t]]
           /\ passed' = [t \in Slots |-> passed[t] /\ cleared_slots(s)[t] # Empty]
    /\ pcMain' = "write"
    /\ UNCHANGED <<started, data_from_cp, messageCreator_file, files,
                   template_exists, sa_event_exists, pd_event_exists, ret,
                   pcCot, pcCp, pcTemplate,
                   nDeposits, orig, removed>>
    /\ UNCHANGED <<process, tak2msc_state, tak2cp_state>>

\* tak2mm.py:400-402  open(messageCreator_file, 'w') and writelines(lines):
\* the file is created when it is not there; the path '' or an I/O error
\* raises.
main_write ==
    /\ pcMain = "write"
    /\ \E ok \in BOOLEAN :
        IF ok /\ messageCreator_file # NoFile
           THEN /\ handoff' = (messageCreator_file :> lines) @@ handoff
                /\ pcMain' = "move"
           ELSE /\ pcMain' = "cleanup"
                /\ UNCHANGED handoff
    /\ UNCHANGED <<globals, imports, template_exists, sa_event_exists, pd_event_exists,
                   ret, pcCot, pcCp, pcTemplate, history>>
    /\ UNCHANGED <<process, tak2msc_state, tak2cp_state>>

\* What shutil.move can do: move the file; raise with nothing done; raise
\* between the copy and the removal of the source (the move across mounts).
MoveOutcomes == {"moved", "failed", "failed_after_copy"}

\* The directories after shutil.move(f, IMPORTS_PATH) with outcome o.
shutil_move(f, o) ==
    IF o = "failed" THEN UNCHANGED <<handoff, imports>>
    ELSE /\ imports' = (f :> handoff[f]) @@ imports
         /\ IF o = "moved"
               THEN handoff' = Restrict(handoff, DOMAIN handoff \ {f})
               ELSE UNCHANGED handoff

\* tak2mm.py:405-407  shutil.move(messageCreator_file, IMPORTS_PATH), then
\* messageCreator_file = '' and lines = []; an error leads to line 408.
main_move ==
    /\ pcMain = "move"
    /\ \E o \in MoveOutcomes :
        IF messageCreator_file \in DOMAIN handoff
           THEN /\ shutil_move(messageCreator_file, o)
                /\ IF o = "moved"
                      THEN /\ messageCreator_file' = NoFile
                           /\ lines' = Empty
                           /\ pcMain' = "events"
                           /\ ResetLocals
                      ELSE /\ pcMain' = "cleanup"
                           /\ UNCHANGED <<messageCreator_file, lines, template_exists,
                                          sa_event_exists, pd_event_exists, ret>>
           ELSE /\ pcMain' = "cleanup"
                /\ UNCHANGED <<handoff, imports, messageCreator_file, lines,
                               template_exists, sa_event_exists, pd_event_exists, ret>>
    /\ UNCHANGED <<started, data_from_cp, myPosition_event, pointDropper_event,
                   pcCot, pcCp, pcTemplate, history>>
    /\ UNCHANGED <<process, tak2msc_state, tak2cp_state>>

\* An except branch that runs the deletion pass and keeps the template held.
remove_old_files_keeps_template ==
    /\ pcMain = "cleanup"
    /\ \E keep \in SUBSET (DOMAIN handoff) : DeletePass(keep)
    /\ pcMain' = "events"
    /\ ResetLocals
    /\ UNCHANGED <<globals, imports, pcCot, pcCp, pcTemplate, history>>
    /\ UNCHANGED <<process, tak2msc_state, tak2cp_state>>

\* tak2mm.py:67-76, 408-413  the except branch: remove_old_files(), then
\* messageCreator_file = '', lines = [], continue
remove_old_files_pass(keep) ==
    /\ pcMain = "cleanup"
    /\ DeletePass(keep)
    /\ messageCreator_file' = NoFile
    /\ lines' = Empty
    /\ pcMain' = "events"
    /\ ResetLocals
    /\ UNCHANGED <<started, data_from_cp, myPosition_event, pointDropper_event,
                   imports, pcCot, pcCp, pcTemplate,
                   nDeposits, orig, firstArr, passed, removed>>
    /\ UNCHANGED <<process, tak2msc_state, tak2cp_state>>

remove_old_files == \E keep \in SUBSET (DOMAIN handoff) : remove_old_files_pass(keep)

\* tak2mm.py:319-323  Ctrl-C: the handler runs on the main thread, clears the
\* running flag and sleeps two seconds.
signal_handler ==
    /\ pcMain \notin {"handler", "exited"}
    /\ pcMain # "done" \/ is_alive(pcCot) \/ is_alive(pcCp) \/ is_alive(pcTemplate)
    /\ started' = FALSE
    /\ pcMain' = "handler"
    /\ ResetLocals
    /\ UNCHANGED <<data_from_cp, myPosition_event, pointDropper_event, messageCreator_file,
                   lines, files, pcCot, pcCp, pcTemplate, history>>
    /\ UNCHANGED <<process, tak2msc_state, tak2cp_state>>

\* A thread when the process exits: stopped where it is, if it still runs.
killed(pc) == IF is_alive(pc) THEN "killed" ELSE pc

\* tak2mm.py:324  os._exit(0) at the end of the handler
os_exit ==
    /\ pcMain = "handler"
    /\ pcMain' = "exited"
    /\ pcCot' = killed(pcCot)
    /\ pcCp' = killed(pcCp)
    /\ pcTemplate' = killed(pcTemplate)
    /\ UNCHANGED <<globals, files, template_exists, sa_event_exists, pd_event_exists, ret,
                   history>>
    /\ exit_status' = "0"
    /\ UNCHANGED <<program, tak2msc_state, tak2cp_state>>

\* ----------------------------------------------------------- specification
cotXmlListener ==
    \/ \E d \in Datagrams : cotXmlListener_recv(d)
    \/ cotXmlListener_timeout \/ cotXmlListener_exit

cpListener == cpListener_recv \/ cpListener_exit

templateListener ==
    \/ templateListener_poll \/ templateListener_take \/ templateListener_check
    \/ templateListener_remove \/ templateListener_clear
    \/ templateListener_cleanup
    \/ templateListener_exit

main ==
    \/ main_events \/ main_compose \/ main_clear_event
    \/ main_write \/ main_move \/ remove_old_files

Next ==
    \/ Deposit \/ cotXmlListener \/ templateListener \/ main
    \/ signal_handler \/ os_exit

Spec == Init /\ [][Next]_vars

\* The main loop is a thread the interpreter keeps scheduling: it sleeps one
\* second at the end of an iteration (tak2mm.py:419) and goes on.
FairSpec == Spec /\ WF_vars(main)

\* ================================================================ tak2cp.py
\* The second script, python/phase2/tak2cp.py: the CoT XML listener thread,
\* the CP listener thread and the main loop.  It shares no state with
\* tak2mm.py; the variables started, data_from_cp, pcCot, pcCp and pcMain are
\* those of the script that runs, and the variables of tak2mm.py alone stay
\* as they are.

\* Events WinTAK sends, forwards CP sends, and records in one recv of CP.
MaxEvents == 2
MaxForwards == 2
MaxBatch == 3

tak2mm_only == <<myPosition_event, pointDropper_event, messageCreator_file, lines, files,
                 template_exists, sa_event_exists, pd_event_exists, ret, pcTemplate, history>>

\* State after tak2cp.py:263-284: started set, the two threads started.
tak2cp_Init ==
    /\ program = "tak2cp"
    /\ exit_status = "running"
    /\ tak2cp_globals
    /\ tak2msc_globals
    /\ started = TRUE
    /\ data_from_cp = Empty
    /\ pcMain = "loop"
    /\ pcCot = "recv"
    /\ pcCp = "recv"
    /\ pcTemplate = "absent"
    /\ myPosition_event = Empty
    /\ pointDropper_event = Empty
    /\ messageCreator_file = NoFile
    /\ lines = Empty
    /\ handoff = <<>>
    /\ imports = <<>>
    /\ template_exists = FALSE
    /\ sa_event_exists = FALSE
    /\ pd_event_exists = FALSE
    /\ ret = Empty
    /\ nDeposits = 0
    /\ orig = <<>>
    /\ firstArr = [s \in Slots |-> Empty]
    /\ passed = [s \in Slots |-> FALSE]
    /\ removed = {}

\* ---------------------------------------------------------- serialisation
\* ET's escaping of text, on the tokens that hold '<' or '>'.
escape_token(t) ==
    CASE t = "<event" -> "&lt;event"
      [] t = "/>" -> "/&gt;"
      [] OTHER -> t

escape(text) == [i \in 1..Len(text) |-> escape_token(text[i])]

\* An element as ET.tostring writes it: <TAG /> without text.
xml_element(tag, text) ==
    IF text = NoText \/ text = Empty THEN <<"<" \o tag, SP, "/>">>
    ELSE <<"<" \o tag \o ">">> \o escape(text) \o <<"</" \o tag \o ">">>

HeaderTags ==
    <<"POSITIONID", "COMMAND", "PRIORITY", "COMPRESS", "ENCRYPT", "ENCRYPTIONKEY",
      "SOURCESTATION", "DESTINATIONSTATION", "ALEADDRESS", "MODEMDATARATE",
      "MODEMINTERLEAVE", "CHECKSUM">>

RECURSIVE xml_elements(_, _)
xml_elements(env, tags) ==
    IF tags = <<>> THEN <<>>
    ELSE xml_element(Head(tags), env[Head(tags)]) \o xml_elements(env, Tail(tags))

\* tak2cp.py:228  ET.tostring(v3protocol, encoding='unicode')
tostring(env) ==
    <<"<V3PROTOCOL>", "<HEADER>">> \o xml_elements(env, HeaderTags)
        \o <<"</HEADER>", "<PAYLOAD>">> \o xml_element("DATA", env.DATA)
        \o <<"</PAYLOAD>", "</V3PROTOCOL>">>

\* tak2cp.py:229,232  the bytes given to sock.sendall
envelope_text(env) == XML_HEADER \o <<NL>> \o tostring(env) \o <<NL>>

\* tak2cp.py:138,141 and 233,236  the slot after the send, ok or not
slot_after_send(slot, ok) == Empty

\* ------------------------------------------------- tak2cp cotXmlListener
tak2cp_Event(n) == COT_EVENT_HEADER \o <<"uid=\"", ToString(n), "\"", "/>">>

\* Datagrams as data_string.split('\n') sees them; n numbers the event.
tak2cp_Datagrams(n) ==
    { <<XML_HEADER, tak2cp_Event(n)>>,
      <<XML_HEADER, <<"junk">> >>,
      <<tak2cp_Event(n)>> }

tak2cp_has_event_header(d) == \E i \in 1..Len(d) : Contains(d[i], COT_EVENT_HEADER)

\* A listener that keeps what the slot holds: differs from
\* tak2cp_cotXmlListener_recv in the deposit alone.
tak2cp_cotXmlListener_recv_keep(d) ==
    /\ program = "tak2cp"
    /\ pcCot = "recv" /\ started
    /\ IF ~tak2cp_has_event_header(d) THEN UNCHANGED <<pcCot, data_to_cp, nEvents>>
       ELSE IF Len(d) < 2 THEN pcCot' = "dead" /\ UNCHANGED <<data_to_cp, nEvents>>
       ELSE /\ nEvents < MaxEvents
            /\ data_to_cp' = IF data_to_cp = Empty THEN d[2] ELSE data_to_cp
            /\ nEvents' = nEvents + 1
            /\ UNCHANGED pcCot
    /\ UNCHANGED <<started, data_from_cp, pcMain, pcCp, process, tak2msc_state, tak2mm_only,
                   v3protocol, modemDataRate, modemInterleave, keyList, nRecords,
                   payload_data_from_cp, records_left, to_wintak, to_cp, batch_progress>>

\* tak2cp.py:115-129  a datagram is received: without the event header it is
\* dropped; with one line only xml[1] raises IndexError, which nothing
\* catches; otherwise the second line replaces what data_to_cp holds.
tak2cp_cotXmlListener_recv(d) ==
    /\ program = "tak2cp"
    /\ pcCot = "recv" /\ started
    /\ IF ~tak2cp_has_event_header(d) THEN UNCHANGED <<pcCot, data_to_cp, nEvents>>
       ELSE IF Len(d) < 2 THEN pcCot' = "dead" /\ UNCHANGED <<data_to_cp, nEvents>>
       ELSE /\ nEvents < MaxEvents
            /\ data_to_cp' = d[2]
            /\ nEvents' = nEvents + 1
            /\ UNCHANGED pcCot
    /\ UNCHANGED <<started, data_from_cp, pcMain, pcCp, process, tak2msc_state, tak2mm_only,
                   v3protocol, modemDataRate, modemInterleave, keyList, nRecords,
                   payload_data_from_cp, records_left, to_wintak, to_cp, batch_progress>>

\* tak2cp.py:131-137  socket.timeout: what data_from_cp holds is given to
\* sock.sendto, which succeeds or raises
tak2cp_cotXmlListener_timeout ==
    /\ program = "tak2cp"
    /\ pcCot = "recv" /\ started
    /\ IF data_from_cp = Empty THEN UNCHANGED <<pcCot, to_wintak>>
       ELSE \E ok \in BOOLEAN :
            /\ to_wintak' = to_wintak \cup {data_from_cp}
            /\ pcCot' = IF ok THEN "sent" ELSE "failed"
    /\ UNCHANGED <<started, data_from_cp, pcMain, pcCp, process, tak2msc_state, tak2mm_only,
                   data_to_cp, v3protocol, modemDataRate, modemInterleave, keyList,
                   nEvents, nRecords, payload_data_from_cp, records_left, to_cp,
                   batch_progress>>

\* tak2cp.py:138 / 141  data_from_cp = '' after the send and in the except
tak2cp_cotXmlListener_clear ==
    /\ program = "tak2cp"
    /\ pcCot \in {"sent", "failed"}
    /\ data_from_cp' = slot_after_send(data_from_cp, pcCot = "sent")
    /\ pcCot' = "recv"
    /\ UNCHANGED <<started, pcMain, pcCp, process, tak2msc_state, tak2mm_only, tak2cp_state>>

\* tak2cp.py:115  while started
tak2cp_cotXmlListener_exit ==
    /\ program = "tak2cp"
    /\ pcCot = "recv" /\ ~started
    /\ pcCot' = "done"
    /\ UNCHANGED <<started, data_from_cp, pcMain, pcCp, process, tak2msc_state, tak2mm_only, tak2cp_state>>

\* ------------------------------------------------------ tak2cp cpListener
\* A record between two XML prologs: whether ET.fromstring parses it, the tag
\* of the root, and the children of the root with their children as
\* <<tag, text>>.
Unparsed == [parses |-> FALSE, tag |-> "", children |-> <<>>]
Rec(children) == [parses |-> TRUE, tag |-> "V3PROTOCOL", children |-> children]
Hdr(kids) == <<"HEADER", kids>>
Pay(kids) == <<"PAYLOAD", kids>>

\* Records CP can send; n numbers the event of a 'data' record.
RecStatus ==
    Rec(<< Hdr(<< <<"COMMAND", <<"status">> >>, <<"MODEMDATARATE", <<"600">> >>,
                  <<"MODEMINTERLEAVE", <<"S">> >> >>) >>)
RecConfig ==
    Rec(<< Hdr(<< <<"COMMAND", <<"config">> >>, <<"KEYLIST", <<"K9", ",", "K2">> >> >>) >>)
RecAck == Rec(<< Hdr(<< <<"COMMAND", <<"ack">> >> >>) >>)
RecData(n) ==
    Rec(<< Hdr(<< <<"COMMAND", <<"data">> >>, <<"CHECKSUM", <<"FAIL">> >> >>),
           Pay(<< <<"DATA", tak2cp_Event(n)>> >>) >>)
RecDataKeys(n) ==
    Rec(<< Hdr(<< <<"COMMAND", <<"data">> >>, <<"KEYLIST", <<"K9">> >> >>),
           Pay(<< <<"DATA", tak2cp_Event(n)>> >>) >>)
RecDataNoPayload == Rec(<< Hdr(<< <<"COMMAND", <<"data">> >> >>) >>)
RecDataEmpty ==
    Rec(<< Hdr(<< <<"COMMAND", <<"data">> >> >>), Pay(<< <<"DATA", NoText>> >>) >>)
RecNoKeys ==
    Rec(<< Hdr(<< <<"COMMAND", <<"config">> >>, <<"KEYLIST", NoText>> >>) >>)
RecOtherRoot == [parses |-> TRUE, tag |-> "HTML", children |-> <<>>]

CpInbound(n) ==
    { Unparsed, RecStatus, RecConfig, RecAck, RecData(n), RecDataKeys(n),
      RecDataNoPayload, RecDataEmpty, RecNoKeys, RecOtherRoot }

\* The record carries a numbered event.
carries_event(r) ==
    \E i \in 1..Len(r.children) : \E j \in 1..Len(r.children[i][2]) :
        Contains(r.children[i][2][j][2], COT_EVENT_HEADER)

\* text.split(','): the list of the texts between the commas
RECURSIVE split_comma(_, _, _)
split_comma(text, cur, acc) ==
    IF text = <<>> THEN Append(acc, cur)
    ELSE IF Head(text) = "," THEN split_comma(Tail(text), <<>>, Append(acc, cur))
    ELSE split_comma(Tail(text), Append(cur, Head(text)), acc)

\* A bridge that copies the CHECKSUM of an inbound record into the envelope.
header_child_copies_checksum(L, g) ==
    IF g[1] = "COMMAND" THEN [L EXCEPT !.command_ = g[2]]
    ELSE IF g[1] = "MODEMDATARATE" THEN [L EXCEPT !.modemDataRate = g[2]]
    ELSE IF g[1] = "MODEMINTERLEAVE" THEN [L EXCEPT !.modemInterleave = g[2]]
    ELSE IF g[1] = "KEYLIST" THEN
        IF g[2] = NoText THEN [L EXCEPT !.raised = TRUE]
        ELSE [L EXCEPT !.keyList = split_comma(g[2], <<>>, <<>>),
                       !.v3protocol.ENCRYPTIONKEY = split_comma(g[2], <<>>, <<>>)[1]]
    ELSE IF g[1] = "CHECKSUM" THEN [L EXCEPT !.v3protocol.CHECKSUM = g[2]]
    ELSE L

\* tak2cp.py:193-201  one child g of HEADER; L holds command_, the globals the
\* loop assigns and whether an exception was raised.  The split of a KEYLIST
\* without text raises AttributeError.
header_child(L, g) ==
    IF g[1] = "COMMAND" THEN [L EXCEPT !.command_ = g[2]]
    ELSE IF g[1] = "MODEMDATARATE" THEN [L EXCEPT !.modemDataRate = g[2]]
    ELSE IF g[1] = "MODEMINTERLEAVE" THEN [L EXCEPT !.modemInterleave = g[2]]
    ELSE IF g[1] = "KEYLIST" THEN
        IF g[2] = NoText THEN [L EXCEPT !.raised = TRUE]
        ELSE [L EXCEPT !.keyList = split_comma(g[2], <<>>, <<>>),
                       !.v3protocol.ENCRYPTIONKEY = split_comma(g[2], <<>>, <<>>)[1]]
    ELSE L

\* tak2cp.py:203-205  one child g of PAYLOAD
payload_child(L, g) ==
    IF g[1] = "DATA" THEN [L EXCEPT !.payload_data_from_cp = g[2]] ELSE L

\* tak2cp.py:192 / 203  for grandchild in child
RECURSIVE grandchildren(_, _, _)
grandchildren(L, tag, kids) ==
    IF kids = <<>> \/ L.raised THEN L
    ELSE grandchildren(IF tag = "HEADER" THEN header_child(L, Head(kids))
                       ELSE IF tag = "PAYLOAD" THEN payload_child(L, Head(kids))
                       ELSE L,
                       tag, Tail(kids))

\* tak2cp.py:190  for child in root
RECURSIVE children(_, _)
children(L, cs) ==
    IF cs = <<>> \/ L.raised THEN L
    ELSE children(grandchildren(L, Head(cs)[1], Head(cs)[2]), Tail(cs))

\* tak2cp.py:186-208  command_ = '' and the try block, on record r
parse_record(r) ==
    LET L0 == [command_ |-> Empty, payload_data_from_cp |-> payload_data_from_cp,
               modemDataRate |-> modemDataRate, modemInterleave |-> modemInterleave,
               keyList |-> keyList, v3protocol |-> v3protocol, raised |-> FALSE]
    IN  IF ~r.parses THEN [L0 EXCEPT !.raised = TRUE]
        ELSE IF r.tag = "V3PROTOCOL" THEN children(L0, r.children)
        ELSE L0

\* A bridge whose except branch leaves the loop over the records.
records_after_error_break(left) == 0

\* tak2cp.py:206-208  continue: the records still to come after one that raised
records_after_error(left) == left - 1

\* The history of the batch: a record was dispatched, then one was skipped,
\* then one was dispatched.
progress_dispatch(p) ==
    IF p = "start" THEN "dispatched"
    ELSE IF p = "dispatched_skipped" THEN "dispatched_skipped_dispatched"
    ELSE p
progress_skip(p) == IF p = "dispatched" THEN "dispatched_skipped" ELSE p

\* tak2cp.py:172-185  a recv with the XML prolog: payload_data_from_cp is set
\* to '' once, and the records are looked at one after the other
tak2cp_cpListener_recv ==
    /\ program = "tak2cp"
    /\ pcCp = "recv" /\ started
    /\ \E n \in 1..MaxBatch : records_left' = n
    /\ payload_data_from_cp' = Empty
    /\ pcCp' = "record"
    /\ batch_progress' = "start"
    /\ UNCHANGED <<started, data_from_cp, pcMain, pcCot, process, tak2msc_state, tak2mm_only,
                   data_to_cp, v3protocol, modemDataRate, modemInterleave, keyList,
                   nEvents, nRecords, to_wintak, to_cp>>

\* tak2cp.py:185-221  the next record r of the batch.  A record that raised in
\* the try block is skipped; 'data' with a DATA element without text makes
\* "in" raise TypeError outside the try block, which nothing catches.
tak2cp_cpListener_record(r) ==
    /\ program = "tak2cp"
    /\ pcCp = "record" /\ records_left > 0
    /\ carries_event(r) => nRecords < MaxForwards
    /\ nRecords' = IF carries_event(r) THEN nRecords + 1 ELSE nRecords
    /\ LET L == parse_record(r)
       IN  /\ modemDataRate' = L.modemDataRate
           /\ modemInterleave' = L.modemInterleave
           /\ keyList' = L.keyList
           /\ v3protocol' = L.v3protocol
           /\ payload_data_from_cp' = L.payload_data_from_cp
           /\ IF L.raised THEN
                  /\ records_left' = records_after_error(records_left)
                  /\ batch_progress' = progress_skip(batch_progress)
                  /\ UNCHANGED <<pcCp, data_from_cp>>
              ELSE IF L.command_ = <<"data">> /\ L.payload_data_from_cp = NoText THEN
                  /\ pcCp' = "dead"
                  /\ UNCHANGED <<records_left, batch_progress, data_from_cp>>
              ELSE
                  /\ records_left' = records_left - 1
                  /\ batch_progress' = progress_dispatch(batch_progress)
                  /\ UNCHANGED pcCp
                  /\ data_from_cp' =
                        IF /\ L.command_ = <<"data">>
                           /\ Contains(L.payload_data_from_cp, COT_EVENT_HEADER)
                        THEN TAK_XML_HEADER \o <<NL>> \o L.payload_data_from_cp
                        ELSE data_from_cp
    /\ UNCHANGED <<started, pcMain, pcCot, process, tak2msc_state, tak2mm_only,
                   data_to_cp, nEvents, to_wintak, to_cp>>

\* tak2cp.py:185  no record is left: back to the while of line 172
tak2cp_cpListener_records_done ==
    /\ program = "tak2cp"
    /\ pcCp = "record" /\ records_left = 0
    /\ pcCp' = "recv"
    /\ batch_progress' = "start"
    /\ UNCHANGED <<started, data_from_cp, pcMain, pcCot, process, tak2msc_state, tak2mm_only,
                   data_to_cp, v3protocol, modemDataRate, modemInterleave, keyList,
                   nEvents, nRecords, payload_data_from_cp, records_left, to_wintak, to_cp>>

\* tak2cp.py:223-232  socket.timeout: what data_to_cp holds is copied into the
\* DATA element, the document is serialised and given to sock.sendall, which
\* succeeds or raises
tak2cp_cpListener_timeout ==
    /\ program = "tak2cp"
    /\ pcCp = "recv" /\ started
    /\ IF data_to_cp = Empty THEN UNCHANGED <<pcCp, v3protocol, to_cp>>
       ELSE \E ok \in BOOLEAN :
            /\ v3protocol' = [v3protocol EXCEPT !.DATA = data_to_cp]
            /\ to_cp' = to_cp \cup {envelope_text(v3protocol')}
            /\ pcCp' = IF ok THEN "sent" ELSE "failed"
    /\ UNCHANGED <<started, data_from_cp, pcMain, pcCot, process, tak2msc_state, tak2mm_only,
                   data_to_cp, modemDataRate, modemInterleave, keyList, nEvents, nRecords,
                   payload_data_from_cp, records_left, to_wintak, batch_progress>>

\* tak2cp.py:233 / 236  data_to_cp = '' after the send and in the except
tak2cp_cpListener_clear ==
    /\ program = "tak2cp"
    /\ pcCp \in {"sent", "failed"}
    /\ data_to_cp' = slot_after_send(data_to_cp, pcCp = "sent")
    /\ pcCp' = "recv"
    /\ UNCHANGED <<started, data_from_cp, pcMain, pcCot, process, tak2msc_state, tak2mm_only,
                   v3protocol, modemDataRate, modemInterleave, keyList, nEvents, nRecords,
                   payload_data_from_cp, records_left, to_wintak, to_cp, batch_progress>>

\* tak2cp.py:172  while started
tak2cp_cpListener_exit ==
    /\ program = "tak2cp"
    /\ pcCp = "recv" /\ ~started
    /\ pcCp' = "done"
    /\ UNCHANGED <<started, data_from_cp, pcMain, pcCot, process, tak2msc_state, tak2mm_only, tak2cp_state>>

\* ------------------------------------------------------- tak2cp main loop
\* tak2cp.py:285-296  one pass of the while loop: the flag is read; a thread
\* that is not alive stops the program; otherwise the sleep of line 296
tak2cp_main_loop ==
    /\ program = "tak2cp"
    /\ pcMain = "loop"
    /\ IF ~started THEN pcMain' = "done" /\ UNCHANGED started
       ELSE IF ~is_alive(pcCot) \/ ~is_alive(pcCp) THEN pcMain' = "done" /\ started' = FALSE
       ELSE UNCHANGED <<pcMain, started>>
    /\ UNCHANGED <<data_from_cp, pcCot, pcCp, process, tak2msc_state, tak2mm_only, tak2cp_state>>

\* tak2cp.py:251-255  Ctrl-C: the handler clears the flag and sleeps
tak2cp_signal_handler ==
    /\ program = "tak2cp"
    /\ pcMain \notin {"handler", "exited"}
    /\ pcMain # "done" \/ is_alive(pcCot) \/ is_alive(pcCp)
    /\ started' = FALSE
    /\ pcMain' = "handler"
    /\ UNCHANGED <<data_from_cp, pcCot, pcCp, process, tak2msc_state, tak2mm_only, tak2cp_state>>

\* tak2cp.py:256  os._exit(0) at the end of the handler
tak2cp_os_exit ==
    /\ program = "tak2cp"
    /\ pcMain = "handler"
    /\ pcMain' = "exited"
    /\ pcCot' = killed(pcCot)
    /\ pcCp' = killed(pcCp)
    /\ exit_status' = "0"
    /\ UNCHANGED <<started, data_from_cp, program, tak2msc_state, tak2mm_only, tak2cp_state>>

tak2cp_cotXmlListener ==
    \/ \E d \in tak2cp_Datagrams(nEvents + 1) : tak2cp_cotXmlListener_recv(d)
    \/ tak2cp_cotXmlListener_timeout \/ tak2cp_cotXmlListener_clear
    \/ tak2cp_cotXmlListener_exit

tak2cp_cpListener ==
    \/ tak2cp_cpListener_recv
    \/ \E r \in CpInbound(nRecords + 1) : tak2cp_cpListener_record(r)
    \/ tak2cp_cpListener_records_done
    \/ tak2cp_cpListener_timeout \/ tak2cp_cpListener_clear
    \/ tak2cp_cpListener_exit

tak2cp_Next ==
    \/ tak2cp_cotXmlListener \/ tak2cp_cpListener
    \/ tak2cp_main_loop \/ tak2cp_signal_handler \/ tak2cp_os_exit

tak2cp_Spec == tak2cp_Init /\ [][tak2cp_Next]_vars

\* A datagram with the event header and a second line.
well_split(d) == has_event_header(d) /\ Len(d) >= 2

\* ============================================================== supervision
\* Either script, with the inputs that matter to the life of its threads:
\* for tak2mm.py Position events and datagrams that are not stored, files
\* from Message Creator and records from CP; for tak2cp.py events and
\* datagrams that are not stored, and the records of CP that forward no event
\* and carry no key list.
terminated(pc) == pc \in {"done", "dead", "unbound", "killed"}

Supervise_Init == Init \/ tak2cp_Init

Supervise_Datagrams ==
    {d \in Datagrams : ~well_split(d) \/ d[2] = EventSA("1")}

Supervise_Records == {Unparsed, RecAck, RecStatus, RecDataEmpty}

Supervise_cotXmlListener ==
    /\ program = "tak2mm"
    /\ \/ \E d \in Supervise_Datagrams : cotXmlListener_recv(d)
       \/ cotXmlListener_timeout \/ cotXmlListener_exit

Supervise_cpListener == program = "tak2mm" /\ cpListener

Supervise_templateListener == program = "tak2mm" /\ (Deposit \/ templateListener)

Supervise_main == program = "tak2mm" /\ (main \/ signal_handler \/ os_exit)

Supervise_tak2cp_cotXmlListener ==
    \/ \E d \in tak2cp_Datagrams(nEvents + 1) : tak2cp_cotXmlListener_recv(d)
    \/ tak2cp_cotXmlListener_timeout \/ tak2cp_cotXmlListener_exit

Supervise_tak2cp_cpListener ==
    \/ tak2cp_cpListener_recv
    \/ \E r \in Supervise_Records : tak2cp_cpListener_record(r)
    \/ tak2cp_cpListener_records_done
    \/ tak2cp_cpListener_timeout \/ tak2cp_cpListener_clear
    \/ tak2cp_cpListener_exit

Supervise_tak2cp_main == tak2cp_main_loop \/ tak2cp_signal_handler \/ tak2cp_os_exit

Supervise_Next ==
    \/ Supervise_cotXmlListener \/ Supervise_cpListener \/ Supervise_templateListener
    \/ Supervise_main
    \/ Supervise_tak2cp_cotXmlListener \/ Supervise_tak2cp_cpListener
    \/ Supervise_tak2cp_main

\* The main loop sleeps one second and runs its next iteration; a receive
\* times out after one second, so a thread comes back to its while test; the
\* template listener sleeps one second between two polls.
Supervise_Spec ==
    /\ Supervise_Init /\ [][Supervise_Next]_vars
    /\ WF_vars(program = "tak2mm" /\ main)
    /\ WF_vars(program = "tak2mm" /\ cotXmlListener_exit)
    /\ WF_vars(program = "tak2mm" /\ cpListener_exit)
    /\ WF_vars(program = "tak2mm" /\ templateListener)
    /\ WF_vars(tak2cp_main_loop)
    /\ WF_vars(tak2cp_cotXmlListener_exit)
    /\ WF_vars(Supervise_tak2cp_cpListener)

\* ================================================================== startup
\* tak2mm.py from the start of its threads: the CoT XML listener has not
\* bound its socket yet and the CP listener has not connected.
Startup_Init ==
    /\ program = "tak2mm"
    /\ exit_status = "running"
    /\ tak2cp_globals
    /\ tak2msc_globals
    /\ started = TRUE
    /\ data_from_cp = Empty
    /\ myPosition_event = Empty
    /\ pointDropper_event = Empty
    /\ messageCreator_file = NoFile
    /\ lines = Empty
    /\ handoff = <<>>
    /\ imports = <<>>
    /\ pcMain = "events"
    /\ template_exists = FALSE
    /\ sa_event_exists = FALSE
    /\ pd_event_exists = FALSE
    /\ ret = Empty
    /\ pcCot = "bind"
    /\ pcCp = "connect"
    /\ pcTemplate = "loop"
    /\ nDeposits = 0
    /\ orig = <<>>
    /\ firstArr = [s \in Slots |-> Empty]
    /\ passed = [s \in Slots |-> FALSE]
    /\ removed = {}

\* tak2mm.py:141-147  the socket is created and bound; on socket.error the
\* handler calls os.exit(1): the module os has no exit, the call raises
\* AttributeError inside the thread, and the thread ends.
cotXmlListener_bind ==
    /\ pcCot = "bind"
    /\ \E ok \in BOOLEAN : pcCot' = IF ok THEN "recv" ELSE "unbound"
    /\ UNCHANGED <<globals, files, mainLocals, pcCp, pcTemplate, history,
                   process, tak2msc_state, tak2cp_state>>

\* tak2mm.py:200-208  the socket is connected to CP; on socket.error the
\* handler calls os._exit(1), which ends the process
cpListener_connect ==
    /\ pcCp = "connect"
    /\ \E ok \in BOOLEAN :
        IF ok THEN pcCp' = "recv" /\ UNCHANGED <<pcMain, pcCot, pcTemplate, exit_status>>
        ELSE /\ pcMain' = "exited"
             /\ pcCot' = killed(pcCot)
             /\ pcCp' = "killed"
             /\ pcTemplate' = killed(pcTemplate)
             /\ exit_status' = "1"
    /\ UNCHANGED <<globals, files, template_exists, sa_event_exists, pd_event_exists, ret,
                   history, program, tak2msc_state, tak2cp_state>>

\* The end of the script: the main thread has left its loop (tak2mm.py:379)
\* and returns; the interpreter waits for the threads and exits with status
\* 0, whatever exception ended a thread.
interpreter_exit ==
    /\ pcMain = "done" /\ exit_status = "running"
    /\ terminated(pcCot) /\ terminated(pcCp) /\ terminated(pcTemplate)
    /\ exit_status' = "0"
    /\ UNCHANGED <<globals, files, mainLocals, pcCot, pcCp, pcTemplate, history,
                   program, tak2msc_state, tak2cp_state>>

Startup_Next ==
    \/ cotXmlListener_bind \/ cpListener_connect \/ interpreter_exit
    \/ Supervise_cotXmlListener \/ Supervise_cpListener \/ Supervise_templateListener
    \/ Supervise_main

Startup_Spec == Startup_Init /\ [][Startup_Next]_vars

\* ========================================================= calculate_digest
\* calculate_digest on its own: a document of at most MaxLines lines and a
\* payload are chosen, and the function is applied to the list lines, which
\* it changes in place, once and then once more.
MaxLines == 6

\* The lines a document is made of: the sentinel, a line that ends in 'BT'
\* without being the sentinel, the blank remarks line, a line of text with
\* runs of white space, the digest placeholder.
LineKinds ==
    { Line(<<"BT">>), Line(<<"SU", "BT">>), Line(BLANK_REMARKS),
      Line(<<SP, "UNCLAS", SP, "\t", "X">>), Line(<<"[DIGEST:", "]">>) }

DigestTemplates == UNION {[1..n -> LineKinds] : n \in 1..MaxLines}

DigestPayloads == {EventSA("1"), <<"-">>}

Digest_Init ==
    /\ program = "tak2mm"
    /\ exit_status = "running"
    /\ tak2cp_globals
    /\ tak2msc_globals
    /\ started = FALSE
    /\ data_from_cp = Empty
    /\ myPosition_event \in DigestPayloads
    /\ pointDropper_event = Empty
    /\ messageCreator_file = NoFile
    /\ lines \in DigestTemplates
    /\ handoff = <<>>
    /\ imports = <<>>
    /\ pcMain = "apply"
    /\ template_exists = TRUE
    /\ sa_event_exists = TRUE
    /\ pd_event_exists = FALSE
    /\ ret = Empty
    /\ pcCot = "absent"
    /\ pcCp = "absent"
    /\ pcTemplate = "absent"
    /\ nDeposits = 0
    /\ orig = <<lines>>
    /\ firstArr = [s \in Slots |-> Empty]
    /\ passed = [s \in Slots |-> FALSE]
    /\ removed = {}

\* tak2mm.py:389  lines = calculate_digest(lines, myPosition_event)
Digest_apply ==
    /\ pcMain \in {"apply", "applied"}
    /\ ret' = calculate_digest(lines, myPosition_event)
    /\ lines' = ret'
    /\ pcMain' = IF pcMain = "apply" THEN "applied" ELSE "applied_twice"
    /\ UNCHANGED <<started, data_from_cp, myPosition_event, pointDropper_event,
                   messageCreator_file, files, template_exists, sa_event_exists,
                   pd_event_exists, pcCot, pcCp, pcTemplate, history, process, tak2msc_state, tak2cp_state>>

Digest_Next == Digest_apply

Digest_Spec == Digest_Init /\ [][Digest_Next]_vars

\* ================================================================= shutdown
\* tak2mm.py with the files of TAK2MSC_PATH written right after the startup
\* code, before a thread has looked at the directory, none written later, and
\* no file that cannot be deleted: os.remove raises only for a file that is
\* not there.
MaxFiles == 2

Shutdown_Init ==
    /\ program = "tak2mm"
    /\ exit_status = "running"
    /\ tak2cp_globals
    /\ tak2msc_globals
    /\ started = TRUE
    /\ data_from_cp = Empty
    /\ myPosition_event = Empty
    /\ pointDropper_event = Empty
    /\ messageCreator_file = NoFile
    /\ lines = Empty
    /\ handoff \in UNION {[1..n -> Templates] : n \in 0..MaxFiles}
    /\ imports = <<>>
    /\ pcMain = "events"
    /\ template_exists = FALSE
    /\ sa_event_exists = FALSE
    /\ pd_event_exists = FALSE
    /\ ret = Empty
    /\ pcCot = "recv"
    /\ pcCp = "recv"
    /\ pcTemplate = "loop"
    /\ nDeposits = Len(handoff)
    /\ orig = handoff
    /\ firstArr = [s \in Slots |-> Empty]
    /\ passed = [s \in Slots |-> FALSE]
    /\ removed = {}

Shutdown_cotXmlListener ==
    \/ \E d \in Supervise_Datagrams : cotXmlListener_recv(d)
    \/ cotXmlListener_timeout \/ cotXmlListener_exit

Shutdown_templateListener ==
    \/ templateListener_poll \/ templateListener_take \/ templateListener_check
    \/ templateListener_remove_outcome(TRUE) \/ templateListener_clear
    \/ templateListener_cleanup_pass({})
    \/ templateListener_exit

Shutdown_main ==
    \/ main_events \/ main_compose \/ main_clear_event
    \/ main_write \/ main_move \/ remove_old_files_pass({})

Shutdown_Next ==
    \/ Shutdown_cotXmlListener \/ Shutdown_templateListener \/ Shutdown_main
    \/ signal_handler \/ os_exit

Shutdown_Spec == Shutdown_Init /\ [][Shutdown_Next]_vars

\* ============================================================== composition
\* tak2mm.py with one file that passes is_cot_template in TAK2MSC_PATH at
\* the start and none written later: the blank remarks line is inside the
\* span of the 'BT' lines, after it, before it, or the line after the first
\* 'BT'.
TemplateRemarksAfter ==
    << Line(<<"SUBJ/COTXML//">>), Line(<<"BT">>), Line(<<"UNCLAS">>),
       Line(<<"TEXT">>), Line(<<"BT">>), Line(BLANK_REMARKS), Line(<<"[DIGEST:", "]">>) >>
TemplateRemarksBefore ==
    << Line(<<"SUBJ/COTXML//">>), Line(BLANK_REMARKS), Line(<<"BT">>), Line(<<"UNCLAS">>),
       Line(<<"TEXT">>), Line(<<"BT">>), Line(<<"[DIGEST:", "]">>) >>
TemplateRemarksFirst ==
    << Line(<<"SUBJ/COTXML//">>), Line(<<"BT">>), Line(BLANK_REMARKS),
       Line(<<"TEXT">>), Line(<<"BT">>), Line(<<"[DIGEST:", "]">>) >>
Compose_Templates ==
    {TemplateBlank, TemplateRemarksAfter, TemplateRemarksBefore, TemplateRemarksFirst}

Compose_Init ==
    /\ program = "tak2mm"
    /\ exit_status = "running"
    /\ tak2cp_globals
    /\ tak2msc_globals
    /\ started = TRUE
    /\ data_from_cp = Empty
    /\ myPosition_event = Empty
    /\ pointDropper_event = Empty
    /\ messageCreator_file = NoFile
    /\ lines = Empty
    /\ handoff \in [1..1 -> Compose_Templates]
    /\ imports = <<>>
    /\ pcMain = "events"
    /\ template_exists = FALSE
    /\ sa_event_exists = FALSE
    /\ pd_event_exists = FALSE
    /\ ret = Empty
    /\ pcCot = "recv"
    /\ pcCp = "recv"
    /\ pcTemplate = "loop"
    /\ nDeposits = Len(handoff)
    /\ orig = handoff
    /\ firstArr = [s \in Slots |-> Empty]
    /\ passed = [s \in Slots |-> FALSE]
    /\ removed = {}

Compose_Next ==
    \/ cotXmlListener \/ templateListener \/ main
    \/ signal_handler \/ os_exit

Compose_Spec == Compose_Init /\ [][Compose_Next]_vars

\* ================================================================ unwrapping
\* The remarks line calculate_digest writes (tak2mm.py:117) and the
\* extraction cpListener applies to a payload that holds it
\* (tak2mm.py:251-256), on event texts that carry the character '/'.  Here
\* '/' is a token of its own and '//' is two of them.
MaxTail == 3

WrapTokens == {"a", ":", "/"}

\* The event header followed by up to MaxTail tokens.
Wrap_Payloads ==
    {EVENT_HEADER \o t : t \in UNION {[1..n -> WrapTokens] : n \in 0..MaxTail}}

\* The text with each token '//' written as two '/'.
RECURSIVE slashes(_)
slashes(text) ==
    IF text = <<>> THEN <<>>
    ELSE (IF Head(text) = "//" THEN <<"/", "/">> ELSE <<Head(text)>>) \o slashes(Tail(text))

\* Index of the first occurrence of pat in text, 0 when there is none.
find(text, pat) ==
    IF Contains(text, pat)
       THEN CHOOSE i \in 1..(Len(text) - Len(pat) + 1) :
                /\ SubSeq(text, i, i + Len(pat) - 1) = pat
                /\ \A j \in 1..(i - 1) : SubSeq(text, j, j + Len(pat) - 1) # pat
       ELSE 0

\* text.split(pat)[0]
split_0(text, pat) ==
    IF find(text, pat) = 0 THEN text ELSE SubSeq(text, 1, find(text, pat) - 1)

\* text.split(pat)[1], for a text that holds pat
split_1(text, pat) ==
    split_0(SubSeq(text, find(text, pat) + Len(pat), Len(text)), pat)

\* tak2mm.py:253-254  the text between 'GENTEXT/REMARKS/' and the first '//'
unwrap(payload) == split_0(slashes(split_1(payload, REMARKS_OPEN)), <<"/", "/">>)

\* The lines of a document as one text.
RECURSIVE Text(_)
Text(ls) == IF ls = <<>> THEN <<>> ELSE Head(ls) \o Text(Tail(ls))

Wrap_Init ==
    /\ program = "tak2mm"
    /\ exit_status = "running"
    /\ tak2cp_globals
    /\ tak2msc_globals
    /\ started = TRUE
    /\ data_from_cp = Empty
    /\ myPosition_event \in Wrap_Payloads
    /\ pointDropper_event = Empty
    /\ messageCreator_file = NoFile
    /\ lines = TemplateBlank
    /\ handoff = <<>>
    /\ imports = <<>>
    /\ pcMain = "apply"
    /\ template_exists = TRUE
    /\ sa_event_exists = TRUE
    /\ pd_event_exists = FALSE
    /\ ret = Empty
    /\ pcCot = "absent"
    /\ pcCp = "recv"
    /\ pcTemplate = "absent"
    /\ nDeposits = 0
    /\ orig = <<lines>>
    /\ firstArr = [s \in Slots |-> Empty]
    /\ passed = [s \in Slots |-> FALSE]
    /\ removed = {}

\* tak2mm.py:389  lines = calculate_digest(lines, myPosition_event)
Wrap_compose ==
    /\ pcMain = "apply"
    /\ ret' = calculate_digest(lines, myPosition_event)
    /\ lines' = ret'
    /\ pcMain' = "applied"
    /\ UNCHANGED <<started, data_from_cp, myPosition_event, pointDropper_event,
                   messageCreator_file, files, template_exists, sa_event_exists,
                   pd_event_exists, pcCot, pcCp, pcTemplate, history, process, tak2msc_state, tak2cp_state>>

\* tak2mm.py:251-256  the branch for a payload that holds
\* 'GENTEXT/REMARKS/', applied to the text of the composed document
Wrap_extract ==
    /\ pcMain = "applied" /\ pcCp = "recv"
    /\ Contains(Text(lines), REMARKS_OPEN)
    /\ data_from_cp' = TAK_XML_HEADER \o <<NL>> \o unwrap(Text(lines))
    /\ pcCp' = "extracted"
    /\ UNCHANGED <<started, myPosition_event, pointDropper_event, messageCreator_file,
                   lines, files, mainLocals, pcCot, pcTemplate, history, process, tak2msc_state,
                   tak2cp_state>>

Wrap_Next == Wrap_compose \/ Wrap_extract

Wrap_Spec == Wrap_Init /\ [][Wrap_Next]_vars

\* ========================================================= tak2msc-nogui.py
\* The third script, python/phase2/tak2msc-nogui.py: the CoT XML listener
\* thread and the main loop, which reads, composes and moves the template
\* itself.  messageCreator_file and lines are locals of its main loop.
nogui_Init ==
    /\ program = "nogui"
    /\ exit_status = "running"
    /\ tak2cp_globals
    /\ tak2msc_globals
    /\ started = TRUE
    /\ data_from_cp = Empty
    /\ myPosition_event = Empty
    /\ pointDropper_event = Empty
    /\ messageCreator_file = NoFile
    /\ lines = Empty
    /\ handoff = <<>>
    /\ imports = <<>>
    /\ pcMain = "loop"
    /\ template_exists = FALSE
    /\ sa_event_exists = FALSE
    /\ pd_event_exists = FALSE
    /\ ret = Empty
    /\ pcCot = "recv"
    /\ pcCp = "absent"
    /\ pcTemplate = "absent"
    /\ nDeposits = 0
    /\ orig = <<>>
    /\ firstArr = [s \in Slots |-> Empty]
    /\ passed = [s \in Slots |-> FALSE]
    /\ removed = {}

\* tak2msc-nogui.py:143-174  one pass of while started: the loop is left and
\* the socket closed when the flag is false; a datagram without the event
\* header is dropped; with one line only xml[1] raises IndexError, which
\* nothing catches; otherwise the if/elif of lines 157-162 stores the body.
nogui_cotXmlListener_recv(d) ==
    /\ program = "nogui"
    /\ pcCot = "recv"
    /\ IF ~started THEN
            pcCot' = "done" /\ UNCHANGED <<pointDropper_event, myPosition_event>>
       ELSE IF ~has_event_header(d) THEN
            UNCHANGED <<pcCot, pointDropper_event, myPosition_event>>
       ELSE IF Len(d) < 2 THEN
            pcCot' = "dead" /\ UNCHANGED <<pointDropper_event, myPosition_event>>
       ELSE LET pd == Contains(d[2], PD_EVENT_TYPE) /\ pointDropper_event = Empty
                sa == ~pd /\ Contains(d[2], SA_EVENT_TYPE) /\ myPosition_event = Empty
            IN  /\ pointDropper_event' = IF pd THEN d[2] ELSE pointDropper_event
                /\ myPosition_event' = IF sa THEN d[2] ELSE myPosition_event
                /\ UNCHANGED pcCot
    /\ UNCHANGED <<started, data_from_cp, messageCreator_file, lines, files, mainLocals,
                   pcCp, pcTemplate, history, process, tak2msc_state, tak2cp_state>>

\* tak2msc-nogui.py:225-235, 265-270  one pass of while started up to the
\* read of the file: with a file and an event, lines = [] and then the lines
\* of any file of the directory, or back to the while when the read raises;
\* otherwise the sleep of line 270.
nogui_main_take ==
    /\ program = "nogui"
    /\ pcMain = "loop"
    /\ IF ~started THEN
            pcMain' = "done" /\ UNCHANGED <<messageCreator_file, lines>>
       ELSE IF DOMAIN handoff # {} /\ (myPosition_event # Empty \/ pointDropper_event # Empty)
       THEN \E f \in DOMAIN handoff, ok \in BOOLEAN :
                /\ messageCreator_file' = f
                /\ lines' = IF ok THEN handoff[f] ELSE Empty
                /\ pcMain' = IF ok THEN "compose" ELSE "loop"
       ELSE UNCHANGED <<pcMain, messageCreator_file, lines>>
    /\ UNCHANGED <<started, data_from_cp, myPosition_event, pointDropper_event, files,
                   template_exists, sa_event_exists, pd_event_exists, ret,
                   pcCot, pcCp, pcTemplate, history, process, tak2msc_state, tak2cp_state>>

\* tak2msc-nogui.py:237-248, 261-264  a template is composed with the
\* PointDrop event, else with the Position event, and the slot is cleared; a
\* file that is no template is deleted, and an error of os.remove, which
\* nothing catches, ends the main thread.
nogui_main_compose ==
    /\ program = "nogui"
    /\ pcMain = "compose"
    /\ IF is_cot_template(lines) THEN
            /\ IF pointDropper_event # Empty THEN
                    /\ lines' = calculate_digest(lines, pointDropper_event)
                    /\ pointDropper_event' = Empty
                    /\ pcMain' = "write"
                    /\ UNCHANGED myPosition_event
               ELSE IF myPosition_event # Empty THEN
                    /\ lines' = calculate_digest(lines, myPosition_event)
                    /\ myPosition_event' = Empty
                    /\ pcMain' = "write"
                    /\ UNCHANGED pointDropper_event
               ELSE /\ pcMain' = "loop"
                    /\ UNCHANGED <<lines, myPosition_event, pointDropper_event>>
            /\ UNCHANGED handoff
       ELSE /\ \E ok \in BOOLEAN :
                IF ok /\ messageCreator_file \in DOMAIN handoff
                   THEN /\ handoff' = Restrict(handoff, DOMAIN handoff \ {messageCreator_file})
                        /\ pcMain' = "loop"
                   ELSE /\ pcMain' = "dead"
                        /\ UNCHANGED handoff
            /\ UNCHANGED <<lines, myPosition_event, pointDropper_event>>
    /\ UNCHANGED <<started, data_from_cp, messageCreator_file, imports,
                   template_exists, sa_event_exists, pd_event_exists, ret,
                   pcCot, pcCp, pcTemplate, history, process, tak2msc_state, tak2cp_state>>

\* tak2msc-nogui.py:250-256  the lines are written back; on an error the
\* loop continues
nogui_main_write ==
    /\ program = "nogui"
    /\ pcMain = "write"
    /\ \E ok \in BOOLEAN :
        IF ok THEN /\ handoff' = (messageCreator_file :> lines) @@ handoff
                   /\ pcMain' = "move"
              ELSE /\ pcMain' = "loop"
                   /\ UNCHANGED handoff
    /\ UNCHANGED <<globals, imports, template_exists, sa_event_exists, pd_event_exists, ret,
                   pcCot, pcCp, pcTemplate, history, process, tak2msc_state, tak2cp_state>>

\* tak2msc-nogui.py:258-260  shutil.move outside any try: an error ends the
\* main thread
nogui_main_move ==
    /\ program = "nogui"
    /\ pcMain = "move"
    /\ \E o \in MoveOutcomes :
        IF messageCreator_file \in DOMAIN handoff
           THEN /\ shutil_move(messageCreator_file, o)
                /\ pcMain' = IF o = "moved" THEN "loop" ELSE "dead"
           ELSE /\ pcMain' = "dead"
                /\ UNCHANGED <<handoff, imports>>
    /\ UNCHANGED <<globals, template_exists, sa_event_exists, pd_event_exists, ret,
                   pcCot, pcCp, pcTemplate, history, process, tak2msc_state, tak2cp_state>>

\* tak2msc-nogui.py:177-180  Ctrl-C: the function has no global statement, so
\* "started = False" binds a local name of the handler and the flag of the
\* module keeps its value; then the sleep of two seconds.
nogui_signal_handler ==
    /\ program = "nogui"
    /\ pcMain \notin {"handler", "exited"}
    /\ pcMain' = "handler"
    /\ UNCHANGED <<globals, files, template_exists, sa_event_exists, pd_event_exists, ret,
                   pcCot, pcCp, pcTemplate, history, process, tak2msc_state, tak2cp_state>>

\* tak2msc-nogui.py:181  os._exit(0)
nogui_os_exit ==
    /\ program = "nogui"
    /\ pcMain = "handler"
    /\ pcMain' = "exited"
    /\ pcCot' = killed(pcCot)
    /\ exit_status' = "0"
    /\ UNCHANGED <<globals, files, template_exists, sa_event_exists, pd_event_exists, ret,
                   pcCp, pcTemplate, history, program, tak2msc_state, tak2cp_state>>

nogui_Next ==
    \/ Deposit
    \/ \E d \in Datagrams : nogui_cotXmlListener_recv(d)
    \/ nogui_main_take \/ nogui_main_compose \/ nogui_main_write \/ nogui_main_move
    \/ nogui_signal_handler \/ nogui_os_exit

nogui_Spec == nogui_Init /\ [][nogui_Next]_vars

\* =============================================================== tak2msc.py
\* The fourth script, python/phase2/tak2msc.py: the CoT XML listener thread
\* and the handlers of the window, which run one at a time on the main
\* thread.  sendToMsgMachine sleeps and waits for the network between its
\* statements, and the listener runs meanwhile.
MaxSerial == 2

messageSatusList ==
    <<"WAITING FOR MESSAGE", "READY TO SEND", "SENDING MESSAGE", "MESSAGE SENT">>

\* tak2msc.py:57  the call signs of the address book
addressList == {"", "AAR9EN"}

MessageTypes == {"position", "point"}

tak2msc_Init ==
    /\ program = "tak2msc"
    /\ exit_status = "running"
    /\ data_to_cp = Empty
    /\ v3protocol = [POSITIONID |-> <<"MessageCreator">>, COMMAND |-> <<"data">>,
                     PRIORITY |-> NoText, COMPRESS |-> <<"1">>, ENCRYPT |-> <<"1">>,
                     ENCRYPTIONKEY |-> <<"MMM">>, SOURCESTATION |-> NoText,
                     DESTINATIONSTATION |-> <<"ALL">>, ALEADDRESS |-> NoText,
                     MODEMDATARATE |-> NoText, MODEMINTERLEAVE |-> NoText,
                     CHECKSUM |-> <<"PASS">>, DATA |-> NoText]
    /\ modemDataRate = Element("MODEMDATARATE")
    /\ modemInterleave = Element("MODEMINTERLEAVE")
    /\ keyList = Empty
    /\ nEvents = 0
    /\ nRecords = 0
    /\ payload_data_from_cp = Empty
    /\ records_left = 0
    /\ to_wintak = {}
    /\ to_cp = {}
    /\ batch_progress = "start"
    /\ tak2msc_globals
    /\ started = TRUE
    /\ data_from_cp = Empty
    /\ myPosition_event = Empty
    /\ pointDropper_event = Empty
    /\ messageCreator_file = NoFile
    /\ lines = Empty
    /\ handoff = <<>>
    /\ imports = <<>>
    /\ pcMain = "idle"
    /\ template_exists = FALSE
    /\ sa_event_exists = FALSE
    /\ pd_event_exists = FALSE
    /\ ret = Empty
    /\ pcCot = "recv"
    /\ pcCp = "absent"
    /\ pcTemplate = "absent"
    /\ nDeposits = 0
    /\ orig = <<>>
    /\ firstArr = [s \in Slots |-> Empty]
    /\ passed = [s \in Slots |-> FALSE]
    /\ removed = {}

tak2msc_rest ==
    <<data_from_cp, myPosition_event, pointDropper_event, messageCreator_file, lines,
      files, template_exists, sa_event_exists, pd_event_exists, ret, pcCp, pcTemplate,
      history, process, data_to_cp, modemDataRate, modemInterleave, keyList, nEvents,
      nRecords, payload_data_from_cp, records_left, to_wintak, to_cp, batch_progress>>

\* tak2msc.py:244-256  setStatus(message_type, status_index): the two status
\* fields afterwards, position and point being what they show before
setStatus(message_type_, status_index, position, point) ==
    IF message_type_ = "position"
       THEN [position |-> messageSatusList[status_index + 1], point |-> point]
    ELSE IF message_type_ = "point"
       THEN [position |-> position, point |-> messageSatusList[status_index + 1]]
    ELSE [position |-> messageSatusList[1], point |-> messageSatusList[1]]

\* tak2msc.py:260-271  cleanup(): both status fields show WAITING FOR
\* MESSAGE and both events are cleared
cleanup ==
    /\ myPositionStatus_entry' =
           setStatus("both", 0, myPositionStatus_entry, pointDropStatus_entry).position
    /\ pointDropStatus_entry' =
           setStatus("both", 0, myPositionStatus_entry, pointDropStatus_entry).point
    /\ myPosition_var' = Empty
    /\ pntDropper_var' = Empty

\* tak2msc.py:208-222  priority.text and the tag for a precedence
setPriorityTextAndGetMsgTag(precedence) ==
    IF precedence = "Routine" THEN [priority |-> <<"4">>, tag |-> "R"]
    ELSE IF precedence = "Priority" THEN [priority |-> <<"3">>, tag |-> "P"]
    ELSE IF precedence = "Immediate" THEN [priority |-> <<"2">>, tag |-> "O"]
    ELSE [priority |-> <<"4">>, tag |-> "R"]

\* What precedence_var can hold: its initial value and two of the menu.
Precedences == {"", "Immediate", "Training"}

\* tak2msc.py:318-333  data.text, without the lines made of the clock and of
\* the address book; classification_var holds its initial value
acp127(tag, serial, precedence, message) ==
    <<NL, "VZCZC", "MMM", "999", NL, tag, tag, NL, "ZNR UUUUU", NL, "BT", NL, "UNCLAS", NL>>
      \o message
      \o <<NL, "BT", NL, "#", ToString(serial), NL, "[DIGEST:", MD5HexUpper(message), "]", NL>>
      \o (IF precedence = "Training"
             THEN <<"TRAINING MESSAGE TAKE NO ACTION", NL>> ELSE <<>>)
      \o <<NL, "NNNN", NL>>

\* tak2msc.py:409-430  the tests of the listener
is_cot_xml(d) == has_event_header(d)
is_sa_event(body) == Contains(body, SA_EVENT_TYPE)
is_pd_event(body) == Contains(body, PD_EVENT_TYPE)

\* tak2msc.py:433-474  one pass of while started: a datagram without the
\* event header is dropped; with one line only xml[1] raises IndexError,
\* which nothing catches; a Point Dropper event replaces pntDropper_var,
\* otherwise a Position event replaces myPosition_var, and the status field
\* of the category shows READY TO SEND.
tak2msc_cotXmlListener_recv(d) ==
    /\ program = "tak2msc"
    /\ pcCot = "recv" /\ started
    /\ IF ~is_cot_xml(d) THEN
           UNCHANGED <<pcCot, myPosition_var, pntDropper_var, myPositionStatus_entry,
                       pointDropStatus_entry>>
       ELSE IF Len(d) < 2 THEN
           /\ pcCot' = "dead"
           /\ UNCHANGED <<myPosition_var, pntDropper_var, myPositionStatus_entry,
                          pointDropStatus_entry>>
       ELSE IF is_pd_event(d[2]) THEN
           /\ pntDropper_var' = d[2]
           /\ myPositionStatus_entry' =
                  setStatus("point", 1, myPositionStatus_entry, pointDropStatus_entry).position
           /\ pointDropStatus_entry' =
                  setStatus("point", 1, myPositionStatus_entry, pointDropStatus_entry).point
           /\ UNCHANGED <<pcCot, myPosition_var>>
       ELSE IF is_sa_event(d[2]) THEN
           /\ myPosition_var' = d[2]
           /\ myPositionStatus_entry' =
                  setStatus("position", 1, myPositionStatus_entry, pointDropStatus_entry).position
           /\ pointDropStatus_entry' =
                  setStatus("position", 1, myPositionStatus_entry, pointDropStatus_entry).point
           /\ UNCHANGED <<pcCot, pntDropper_var>>
       ELSE UNCHANGED <<pcCot, myPosition_var, pntDropper_var, myPositionStatus_entry,
                        pointDropStatus_entry>>
    /\ UNCHANGED <<started, pcMain, v3protocol, msgSerial_var, fromAddress_var,
                   toAddress_var, message_type, to_msg_machine, tak2msc_rest>>

\* tak2msc.py:448, 465-474  while started: the loop is left, the socket closed
tak2msc_cotXmlListener_exit ==
    /\ program = "tak2msc"
    /\ pcCot = "recv" /\ ~started
    /\ pcCot' = "done"
    /\ UNCHANGED <<started, pcMain, v3protocol, tak2msc_state, tak2msc_rest>>

\* tak2msc.py:187, 200  an entry of the From or the To menu is chosen
tak2msc_select_address(from, to) ==
    /\ program = "tak2msc"
    /\ pcMain = "idle"
    /\ fromAddress_var' = from
    /\ toAddress_var' = to
    /\ UNCHANGED <<started, pcMain, pcCot, v3protocol, myPosition_var, pntDropper_var,
                   myPositionStatus_entry, pointDropStatus_entry, msgSerial_var,
                   message_type, to_msg_machine, tak2msc_rest>>

\* The status field of a category.
status_of(message_type_) ==
    IF message_type_ = "position" THEN myPositionStatus_entry ELSE pointDropStatus_entry

\* The event of a category.
message_of(message_type_) ==
    IF message_type_ = "position" THEN myPosition_var ELSE pntDropper_var

\* tak2msc.py:276-337  a Send button is pressed: without both addresses, or
\* with no message of the category ready, a warning and nothing else;
\* otherwise the status shows SENDING MESSAGE, the header fields and
\* data.text are filled, and the connection is opened.  A look-up in the
\* address book that finds no row raises, and the except branch of line 348
\* runs cleanup().
tak2msc_sendToMsgMachine_begin(mt, precedence, found) ==
    /\ program = "tak2msc"
    /\ pcMain = "idle"
    /\ IF fromAddress_var = "" \/ toAddress_var = "" \/ status_of(mt) # messageSatusList[2]
          THEN UNCHANGED <<pcMain, v3protocol, myPosition_var, pntDropper_var,
                           myPositionStatus_entry, pointDropStatus_entry, message_type>>
       ELSE IF ~found THEN
            /\ v3protocol' =
                  [v3protocol EXCEPT !.PRIORITY = setPriorityTextAndGetMsgTag(precedence).priority,
                                     !.SOURCESTATION = <<fromAddress_var>>]
            /\ cleanup
            /\ UNCHANGED <<pcMain, message_type>>
       ELSE /\ msgSerial_var < MaxSerial
            /\ myPositionStatus_entry' =
                   setStatus(mt, 2, myPositionStatus_entry, pointDropStatus_entry).position
            /\ pointDropStatus_entry' =
                   setStatus(mt, 2, myPositionStatus_entry, pointDropStatus_entry).point
            /\ v3protocol' =
                  [v3protocol EXCEPT !.PRIORITY = setPriorityTextAndGetMsgTag(precedence).priority,
                                     !.SOURCESTATION = <<fromAddress_var>>,
                                     !.DATA = acp127(setPriorityTextAndGetMsgTag(precedence).tag,
                                                     msgSerial_var, precedence, message_of(mt))]
            /\ message_type' = mt
            /\ pcMain' = "sending"
            /\ UNCHANGED <<myPosition_var, pntDropper_var>>
    /\ UNCHANGED <<started, pcCot, msgSerial_var, fromAddress_var, toAddress_var,
                   to_msg_machine, tak2msc_rest>>

\* tak2msc.py:337-350  connect, recv, sendall: when all three succeed the
\* status shows MESSAGE SENT and the serial number grows by one; when one of
\* them raises, the except branch runs cleanup().
tak2msc_sendToMsgMachine_send(sent) ==
    /\ program = "tak2msc"
    /\ pcMain = "sending"
    /\ IF sent
          THEN /\ to_msg_machine' = to_msg_machine \cup {envelope_text(v3protocol)}
               /\ myPositionStatus_entry' =
                      setStatus(message_type, 3, myPositionStatus_entry,
                                pointDropStatus_entry).position
               /\ pointDropStatus_entry' =
                      setStatus(message_type, 3, myPositionStatus_entry,
                                pointDropStatus_entry).point
               /\ msgSerial_var' = msgSerial_var + 1
               /\ UNCHANGED <<myPosition_var, pntDropper_var>>
          ELSE /\ cleanup
               /\ UNCHANGED <<to_msg_machine, msgSerial_var>>
    /\ pcMain' = "idle"
    /\ message_type' = ""
    /\ UNCHANGED <<started, pcCot, v3protocol, fromAddress_var, toAddress_var, tak2msc_rest>>

\* tak2msc.py:487-505  the window is closed and the question answered with
\* yes: started = False, and the window is destroyed two seconds later
tak2msc_app_exit ==
    /\ program = "tak2msc"
    /\ pcMain = "idle"
    /\ started' = FALSE
    /\ pcMain' = "exited"
    /\ UNCHANGED <<pcCot, v3protocol, tak2msc_state, tak2msc_rest>>

tak2msc_cotXmlListener ==
    \/ \E d \in Datagrams : tak2msc_cotXmlListener_recv(d)
    \/ tak2msc_cotXmlListener_exit

tak2msc_sendToMsgMachine ==
    \/ \E mt \in MessageTypes : \E precedence \in Precedences : \E found \in BOOLEAN :
          tak2msc_sendToMsgMachine_begin(mt, precedence, found)
    \/ \E sent \in BOOLEAN : tak2msc_sendToMsgMachine_send(sent)

tak2msc_Next ==
    \/ tak2msc_cotXmlListener
    \/ \E from \in addressList : \E to \in addressList : tak2msc_select_address(from, to)
    \/ tak2msc_sendToMsgMachine
    \/ tak2msc_app_exit

tak2msc_Spec == tak2msc_Init /\ [][tak2msc_Next]_vars

\* ================================================================== claims
\* Ids of the files Message Creator can have written.
FileIds == 1..MaxDeposits

\* The file f was written by Message Creator without one of the two markers.
invalid(f) == f \in DOMAIN orig /\ ~is_cot_template(orig[f])

\* The slot the iteration in progress has chosen.
chosen == branch(template_exists, sa_event_exists, pd_event_exists)

\* C1: a file that lacks the subject marker or the blank-remarks marker is
\* never written back by the dispatcher (while it is in the hand-off
\* directory it is as Message Creator wrote it) and never reaches the output
\* directory.
C1_InvalidNeverComposed ==
    \A f \in FileIds :
        invalid(f) => /\ f \notin DOMAIN imports
                      /\ f \in DOMAIN handoff => handoff[f] = orig[f]

\* C2: a slot holds exactly the earliest payload offered to it since the
\* dispatcher last cleared it: an offer to an occupied slot stores nothing,
\* and an empty slot has been offered nothing.
C2_EarliestKept == \A s \in Slots : Slot(s) = firstArr[s]

\* A PointDrop event is pending and a later event with the PointDrop marker
\* has been turned away from the PointDrop slot.
C2_Witness == pointDropper_event = EventPD("1") /\ myPosition_event = EventBoth("3")

\* C3 as stated: an event that arrives for a category supersedes the pending
\* one of that category, so that the latest is the one the dispatcher finds.
C3_LatestSupersedes ==
    [][\A d \in Datagrams :
          (cotXmlListener_recv(d) /\ well_split(d))
              => \A s \in offered(d[2]) : Slot(s)' = d[2]]_vars

\* C3 amended: the event the dispatcher gives to calculate_digest is the
\* earliest one offered to the category since the slot was last cleared; the
\* events that arrive while it is pending are dropped.
C3_EarliestDelivered ==
    [][main_compose => ret' = calculate_digest(lines, firstArr[chosen])]_vars

\* The dispatcher has composed with the pending PointDrop event after a later
\* event with the PointDrop marker was turned away.
C3_Witness ==
    /\ pcMain = "clear_event" /\ chosen = "pd"
    /\ passed["pd"] /\ pointDropper_event = EventPD("1")
    /\ myPosition_event = EventBoth("3")
    /\ ret = calculate_digest(TemplateBlank, EventPD("1"))

\* C4: an event in a slot is given to calculate_digest at most once, and a
\* slot that holds an event changes only by being cleared after its event was
\* given to calculate_digest.
C4_PassedExactlyOnce ==
    [][\A s \in Slots :
          /\ (main_compose /\ chosen = s) => (Slot(s) # Empty /\ ~passed[s])
          /\ (Slot(s) # Empty /\ Slot(s)' # Slot(s)) => (Slot(s)' = Empty /\ passed[s])]_vars

\* The dispatcher has taken the Position event, and the slot holds the next
\* one, which has not been composed yet.
C4_Witness ==
    /\ pcMain = "write" /\ chosen = "sa"
    /\ myPosition_event # Empty /\ ~passed["sa"]

\* C5: a body with the PointDrop marker never changes the Position slot.
C5_PointDropOnlyToItsSlot ==
    [][\A d \in Datagrams :
          (cotXmlListener_recv(d) /\ well_split(d) /\ Contains(d[2], PD_EVENT_TYPE))
              => myPosition_event' = myPosition_event]_vars

\* C6: a body with the Position marker only leaves the PointDrop slot as it
\* is, a body with the PointDrop marker only leaves the Position slot as it
\* is, and the dispatcher's clear of one slot leaves the other as it is: a
\* step that changes a slot is neither the receipt of a body without that
\* slot's marker nor the clear of the other slot.
C6_OtherSlotUnchanged ==
    [][/\ pointDropper_event' # pointDropper_event =>
            /\ \A d \in Datagrams :
                  (well_split(d) /\ ~Contains(d[2], PD_EVENT_TYPE)) => ~cotXmlListener_recv(d)
            /\ chosen = "sa" => ~main_clear_event
       /\ myPosition_event' # myPosition_event =>
            /\ \A d \in Datagrams :
                  (well_split(d) /\ ~Contains(d[2], SA_EVENT_TYPE)) => ~cotXmlListener_recv(d)
            /\ chosen = "pd" => ~main_clear_event]_vars

\* The dispatcher has cleared the Position slot while a PointDrop event was
\* pending, and that event is still there.
C6_Witness ==
    /\ pcMain = "write" /\ chosen = "sa" /\ pd_event_exists
    /\ myPosition_event = Empty /\ pointDropper_event = EventPD("1")

\* A template with both markers is held under the name f and an event is
\* pending, with the running flag set.
C7_Ready(f) ==
    /\ started
    /\ messageCreator_file = f /\ lines # Empty /\ is_cot_template(lines)
    /\ myPosition_event # Empty \/ pointDropper_event # Empty

\* C7: from a state with a valid template held and an event pending, the
\* file reaches the output directory, unless the running flag is cleared or a
\* write or a move raises; the step that clears the slot follows a compose
\* with that slot's event, the file is written from the composed lines, and
\* the move leaves no template held.
C7_Delivered ==
    /\ \A f \in FileIds :
          C7_Ready(f) ~> (f \in DOMAIN imports \/ ~started \/ pcMain = "cleanup")
    /\ [][/\ main_clear_event => (passed[chosen] /\ Slot(chosen)' = Empty)
          /\ (main_write /\ pcMain' = "move") => handoff'[messageCreator_file] = ret
          /\ (main_move /\ pcMain' = "events") =>
                /\ messageCreator_file \in DOMAIN imports'
                /\ imports'[messageCreator_file] = ret
                /\ messageCreator_file \notin DOMAIN handoff'
                /\ lines' = Empty /\ messageCreator_file' = NoFile]_vars

\* A valid template was composed with an event and moved; no template is
\* held and the dispatcher goes on.
C7_Witness ==
    /\ started /\ pcMain = "events" /\ pcTemplate = "loop"
    /\ lines = Empty /\ messageCreator_file = NoFile
    /\ \E f \in DOMAIN imports :
          /\ is_cot_template(orig[f])
          /\ imports[f] = calculate_digest(orig[f], EventSA("1"))

\* C8: the template listener leaves its loop only when the running flag has
\* been cleared; deleting a file that is no template does not end it.
C8_WatcherKeepsRunning == pcTemplate \in {"cleanup", "done"} => ~started

C10_DeletedOrRelocated ==
    \A f \in FileIds :
        /\ f \in removed => (invalid(f) /\ f \notin DOMAIN imports)
        /\ f \in DOMAIN imports => ~invalid(f)

\* C12: a datagram that is malformed never ends the CoT XML listener: one
\* that holds the event header and no line break is dropped, the two slots
\* stay as they are and the listener goes on to its next receive.
C12_MalformedDiscarded ==
    [][\A d \in {e \in Datagrams : has_event_header(e) /\ Len(e) < 2} :
          cotXmlListener_recv(d) =>
              /\ pcCot' = "recv"
              /\ myPosition_event' = myPosition_event
              /\ pointDropper_event' = pointDropper_event]_vars

\* C11: in tak2mm.py and in tak2cp.py, when a managed thread has ended, for
\* whatever reason, the main loop clears the running flag, and once the flag
\* is cleared every managed thread ends.
C11_SupervisedShutdown ==
    /\ (terminated(pcCot) \/ terminated(pcCp) \/ terminated(pcTemplate)) ~> ~started
    /\ ~started ~> /\ terminated(pcCot) /\ terminated(pcCp)
                   /\ program = "tak2mm" => terminated(pcTemplate)

\* The CoT XML listener of tak2mm.py was ended by an exception, the main loop
\* has cleared the flag and left, and the two other threads have left their
\* loops and returned.
C11_Witness ==
    /\ program = "tak2mm" /\ pcCot = "dead"
    /\ ~started /\ pcMain = "done"
    /\ pcCp = "done" /\ pcTemplate = "done"

\* C13: in tak2cp.py a record of a batch that ET.fromstring does not parse is
\* skipped alone: the step changes nothing but the count of the records still
\* to come, which goes down by one, and the thread stays in the loop over the
\* records; a 'data' record that comes after it in the batch is forwarded.
C13_MalformedSkippedAlone ==
    [][/\ \A r \in {q \in CpInbound(nRecords + 1) : ~q.parses} :
            tak2cp_cpListener_record(r) =>
                /\ pcCp' = "record" /\ records_left' = records_left - 1
                /\ UNCHANGED <<data_from_cp, data_to_cp, v3protocol, modemDataRate,
                               modemInterleave, keyList, payload_data_from_cp>>
       /\ (batch_progress = "dispatched_skipped"
              /\ tak2cp_cpListener_record(RecData(nRecords + 1))) =>
                /\ data_from_cp' = TAK_XML_HEADER \o <<NL>> \o tak2cp_Event(nRecords + 1)
                /\ pcCp' = "record"]_vars

\* In one batch a record was dispatched, the next one did not parse and was
\* skipped, and the 'data' record after it was forwarded; the thread runs.
C13_Witness ==
    /\ batch_progress = "dispatched_skipped_dispatched"
    /\ pcCp = "record" /\ records_left = 0
    /\ data_from_cp = TAK_XML_HEADER \o <<NL>> \o tak2cp_Event(nRecords)
    /\ nRecords = 1

\* C14: in tak2mm.py a record of CP with the command 'data' (whose payload
\* holds the event header inside a remarks line) is forwarded: data_from_cp
\* becomes the XML prolog and the event text, to be sent by the CoT XML
\* listener at its next timeout, and the CP listener stays in its loop.
C14_DataForwarded ==
    [][\A batch \in {b \in CpBatches :
                       \E i \in 1..Len(b) : b[i].wellformed /\ b[i].command = "data"} :
          (program = "tak2mm" /\ cpListener_batch(batch)) =>
              (data_from_cp' # Empty /\ pcCp' = "recv")]_vars

\* C15: when the CoT XML listener of tak2mm.py cannot bind its socket, the
\* process ends with an exit status that is not zero (Ctrl-C, which ends the
\* process with status 0 by design, set aside).
C15_BindFailureExitsNonZero ==
    (pcCot = "unbound" /\ pcMain \notin {"handler", "exited"}) => exit_status # "0"

\* The payload was given to sock.sendall inside an envelope before.
sent_to_cp(payload) == \E t \in to_cp : Contains(t, escape(payload))

\* C16: in tak2cp.py a timeout branch that finds its outbound slot filled
\* gives the payload to the transport and clears the slot, whether the send
\* succeeded or raised; no payload is given to the transport a second time.
C16_FireAndForget ==
    [][/\ (tak2cp_cotXmlListener_timeout /\ pcCot' # pcCot) => data_from_cp \notin to_wintak
       /\ (tak2cp_cpListener_timeout /\ pcCp' # pcCp) => ~sent_to_cp(data_to_cp)
       /\ tak2cp_cotXmlListener_clear => data_from_cp' = Empty
       /\ tak2cp_cpListener_clear => data_to_cp' = Empty]_vars

\* C17: every envelope tak2cp.py gives to sock.sendall holds the element
\* <CHECKSUM>PASS</CHECKSUM>, whatever records CP has sent before.
C17_ChecksumPass ==
    \A t \in to_cp : Contains(t, <<"<CHECKSUM>", "PASS", "</CHECKSUM>">>)

\* CP has sent a 'data' record with the CHECKSUM 'FAIL' (the one record that
\* forwards an event and leaves the key as it is), and the CP listener has
\* just sent an envelope.
C17_Witness ==
    /\ pcCp = "sent" /\ to_cp # {}
    /\ nRecords = 1 /\ v3protocol.ENCRYPTIONKEY = <<"ZYG25A">>
    /\ to_wintak = {TAK_XML_HEADER \o <<NL>> \o tak2cp_Event(1)}

\* The texts of the children of HEADER in the envelope.
header_fields(env) == [t \in {HeaderTags[i] : i \in 1..Len(HeaderTags)} |-> env[t]]

\* C18: in tak2cp.py the header fields of the envelope change only while a
\* record with the command 'config' or 'status' is processed: a record with
\* another command, or with none, leaves every header field as it is.
C18_HeaderFrame ==
    [][\A r \in CpInbound(nRecords + 1) :
          (tak2cp_cpListener_record(r) /\ parse_record(r).command_ \notin {<<"config">>, <<"status">>})
              => header_fields(v3protocol') = header_fields(v3protocol)]_vars

\* The digest lines of a document, in order.
digest_lines(doc) == SelectSeq(doc, LAMBDA l : Contains(l, DIGEST_OPEN))

\* C19: calculate_digest gives two equal copies of a template the same digest
\* lines, and applied again, with the same payload, to the document it has
\* composed it leaves the digest lines as they are.
C19_DigestIdempotent ==
    /\ pcMain = "applied" =>
          digest_lines(calculate_digest(orig[1], myPosition_event)) = digest_lines(lines)
    /\ pcMain \in {"applied", "applied_twice"} =>
          digest_lines(calculate_digest(lines, myPosition_event)) = digest_lines(lines)

\* A template with a span and a digest placeholder was composed with an
\* event, and composed again: the digest line is filled.
C19_Witness ==
    /\ pcMain = "applied_twice" /\ myPosition_event = EventSA("1")
    /\ orig[1] = << Line(<<"BT">>), Line(<<SP, "UNCLAS", SP, "\t", "X">>), Line(BLANK_REMARKS),
                    Line(<<"BT">>), Line(<<"[DIGEST:", "]">>) >>
    /\ lines[3] = RemarksLine(EventSA("1"))
    /\ lines[5] = DigestLine(ReplaceNL(RemarksLine(EventSA("1"))))

\* The sentinel line and the digest placeholder line.
sentinel == Line(<<"BT">>)
digest_placeholder == Line(<<"[DIGEST:", "]">>)

\* The first sentinel line of T, and the first one after the classifier line
\* that follows it; Len(T) + 1 when there is none.
start_of(T) ==
    IF \E i \in 1..Len(T) : T[i] = sentinel
       THEN CHOOSE i \in 1..Len(T) : T[i] = sentinel /\ \A j \in 1..(i - 1) : T[j] # sentinel
       ELSE Len(T) + 1
end_of(T) ==
    IF \E i \in (start_of(T) + 2)..Len(T) : T[i] = sentinel
       THEN CHOOSE i \in (start_of(T) + 2)..Len(T) :
                T[i] = sentinel /\ \A j \in (start_of(T) + 2)..(i - 1) : T[j] # sentinel
       ELSE Len(T) + 1

\* The lines between the classifier line and the end sentinel.
span_of(T) == (start_of(T) + 2)..(end_of(T) - 1)

\* A start sentinel, a classifier line, one blank remarks line in the span, an
\* end sentinel and the digest placeholder as the last line.
standard(T) ==
    /\ end_of(T) < Len(T)
    /\ T[Len(T)] = digest_placeholder
    /\ Cardinality({i \in span_of(T) : Contains(T[i], BLANK_REMARKS)}) = 1

\* The span lines from i on, the blank remarks line replaced by the remarks
\* line of P, each with its line break replaced by a space, joined.
RECURSIVE span_text(_, _, _)
span_text(T, P, i) ==
    IF i >= end_of(T) THEN <<>>
    ELSE ReplaceNL(IF Contains(T[i], BLANK_REMARKS) THEN REMARKS_OPEN \o P \o <<"//", NL>>
                   ELSE T[i]) \o span_text(T, P, i + 1)

canonical(T, P) == JoinSplit(span_text(T, P, start_of(T) + 2), <<>>, FALSE)

\* C20: for a template with a start sentinel, a classifier line, one blank
\* remarks line in the span, an end sentinel and a last line that is the
\* digest placeholder, calculate_digest with payload P makes the blank remarks
\* line 'GENTEXT/REMARKS/' + P + '//' and the last line '[DIGEST:' + the hash
\* of the canonical text of the span + ']'.
C20_StandardComposition ==
    (pcMain = "applied" /\ standard(orig[1])) =>
        LET T == orig[1]
            P == myPosition_event
        IN  /\ \A i \in span_of(T) :
                  Contains(T[i], BLANK_REMARKS) => lines[i] = REMARKS_OPEN \o P \o <<"//", NL>>
            /\ lines[Len(T)] = DIGEST_OPEN \o <<MD5HexUpper(canonical(T, P)), "]", NL>>


\* C21: for a template with a start sentinel line and no end sentinel line
\* after it, calculate_digest leaves every digest placeholder line as it was.
C21_NoEndSentinelNoDigest ==
    (pcMain = "applied" /\ start_of(orig[1]) <= Len(orig[1]) /\ end_of(orig[1]) > Len(orig[1])) =>
        \A i \in 1..Len(orig[1]) : orig[1][i] = digest_placeholder => lines[i] = orig[1][i]


\* C22: in tak2mm.py, once the running flag is cleared and templateListener
\* has terminated, TAK2MSC_PATH holds no file.
C22_DirectoryEmptyAfterShutdown ==
    (~started /\ pcTemplate \in {"done", "dead"}) => DOMAIN handoff = {}


\* C23: in tak2mm.py, in an iteration of the main loop that finds a template
\* held and both a Position and a PointDrop event pending, the Position event
\* is the one given to calculate_digest and cleared, and the PointDrop event
\* stays in its slot.
C23_PositionBeforePointDrop ==
    [][(template_exists /\ sa_event_exists /\ pd_event_exists) =>
          /\ (pcMain = "compose" /\ pcMain' = "clear_event") =>
                /\ ret' = calculate_digest(lines, myPosition_event)
                /\ passed'["sa"] /\ passed'["pd"] = passed["pd"]
                /\ UNCHANGED <<myPosition_event, pointDropper_event>>
          /\ (pcMain = "clear_event" /\ pcMain' = "write") =>
                /\ myPosition_event # Empty /\ myPosition_event' = Empty
                /\ pointDropper_event # Empty /\ pointDropper_event' = pointDropper_event]_vars

\* The main loop found a template and both events, and has cleared the
\* Position slot; the PointDrop event is still pending.
C23_Witness ==
    /\ pcMain = "write" /\ template_exists /\ sa_event_exists /\ pd_event_exists
    /\ myPosition_event = Empty /\ pointDropper_event = EventPD("1")


\* C24: calculate_digest takes only a line that is exactly 'BT' for a
\* sentinel: a line it changes is a line of the span between the sentinel
\* lines or a line after the end sentinel line, and a blank remarks line of
\* that span becomes the remarks line of the payload.
C24_SentinelIsExactLine ==
    pcMain = "applied" =>
        LET T == orig[1]
        IN  /\ \A i \in 1..Len(T) : lines[i] # T[i] => (i \in span_of(T) \/ i > end_of(T))
            /\ \A i \in span_of(T) :
                  Contains(T[i], BLANK_REMARKS) => lines[i] = RemarksLine(myPosition_event)


\* The blank remarks lines of the span of T.
blank_lines(T) == {i \in span_of(T) : Contains(T[i], BLANK_REMARKS)}

\* C25: of the blank remarks lines in the span, calculate_digest replaces the
\* first by the remarks line of the payload and leaves the later ones as they
\* were.
C25_FirstRemarksLineOnly ==
    pcMain = "applied" =>
        \A i \in blank_lines(orig[1]) :
            lines[i] = IF \A j \in blank_lines(orig[1]) : i <= j
                          THEN RemarksLine(myPosition_event)
                          ELSE orig[1][i]


\* The lines of T after the end sentinel that contain '[DIGEST:'.
digest_slots(T) == {i \in (end_of(T) + 1)..Len(T) : Contains(T[i], DIGEST_OPEN)}

\* C26: of the lines with '[DIGEST:' after the end sentinel, calculate_digest
\* fills the first and leaves the later ones as they were.
C26_FirstDigestLineOnly ==
    pcMain = "applied" =>
        \A i \in digest_slots(orig[1]) :
            IF \A j \in digest_slots(orig[1]) : i <= j
               THEN lines[i] # orig[1][i] /\ Contains(lines[i], DIGEST_OPEN)
               ELSE lines[i] = orig[1][i]


\* C27: calculate_digest skips the one line after the start sentinel: that
\* line is returned as it was, whatever it is, and the digest is the hash of
\* the canonical text of the lines after it up to the end sentinel, in their
\* order, without it.
C27_ClassifierLineSkipped ==
    (pcMain = "applied" /\ start_of(orig[1]) < Len(orig[1])) =>
        LET T == orig[1]
        IN  /\ lines[start_of(T) + 1] = T[start_of(T) + 1]
            /\ Cardinality(blank_lines(T)) <= 1 =>
                  \A i \in digest_slots(T) :
                      (\A j \in digest_slots(T) : i <= j) =>
                          lines[i] = DIGEST_OPEN
                                     \o <<MD5HexUpper(canonical(T, myPosition_event)), "]", NL>>


\* C28: when the document has no start sentinel, no end sentinel or no blank
\* remarks line in the span, calculate_digest returns every digest
\* placeholder line as it was.
C28_NothingFilledWhenIncomplete ==
    (/\ pcMain = "applied"
     /\ \/ start_of(orig[1]) > Len(orig[1])
        \/ end_of(orig[1]) > Len(orig[1])
        \/ blank_lines(orig[1]) = {}) =>
        \A i \in 1..Len(orig[1]) : orig[1][i] = digest_placeholder => lines[i] = orig[1][i]


\* C29: in tak2cp.py, whenever cpListener clears data_to_cp, the payload it
\* clears has been put into an envelope and given to sock.sendall.
C29_NoUnsentEventCleared ==
    [][(data_to_cp # Empty /\ data_to_cp' = Empty) => sent_to_cp(data_to_cp)]_vars


\* C30: in tak2cp.py, whenever cotXmlListener clears data_from_cp, the text it
\* clears has been given to sock.sendto.
C30_NoUnsentForwardCleared ==
    [][(data_from_cp # Empty /\ data_from_cp' = Empty) => data_from_cp \in to_wintak]_vars


\* C31: in tak2cp.py a 'data' record without a text of its own in
\* PAYLOAD.DATA leaves data_from_cp as it was and does not end cpListener,
\* whatever the records before it in the same batch carried.
C31_OwnPayloadOnly ==
    [][\A r \in {RecDataNoPayload, RecDataEmpty} :
          tak2cp_cpListener_record(r) => (data_from_cp' = data_from_cp /\ pcCp' # "dead")]_vars


\* C32: in tak2msc-nogui.py, once the handler of the termination signal has
\* run, the flag started is false, and when the process exits the listener
\* has left its loop.
C32_SignalClearsFlag ==
    /\ pcMain \in {"handler", "exited"} => ~started
    /\ pcMain = "exited" => pcCot # "killed"


\* The template held is a file that Message Creator wrote as a valid template.
holds_valid == lines # Empty /\ messageCreator_file \in DOMAIN orig
               /\ is_cot_template(orig[messageCreator_file])

\* C33: in tak2mm.py templateListener reads a file only when lines is empty,
\* and no step of templateListener changes lines or messageCreator_file while
\* they hold a valid template.
C33_WatcherLeavesValidTemplate ==
    [][pcTemplate' # pcTemplate =>
          /\ (pcTemplate = "take" /\ pcTemplate' # "dead") => lines = Empty
          /\ holds_valid => UNCHANGED <<lines, messageCreator_file>>]_vars


\* C34: in tak2cp.py every recognized event replaces what data_to_cp holds,
\* so a filled slot holds the latest event deposited, and when cpListener
\* finds the slot filled at a timeout the envelope it gives to sock.sendall
\* carries that latest event.
C34_OverwriteLatestSent ==
    [][/\ nEvents' # nEvents => data_to_cp' = tak2cp_Event(nEvents')
       /\ data_to_cp # Empty => data_to_cp = tak2cp_Event(nEvents)
       /\ (pcCp = "recv" /\ pcCp' \in {"sent", "failed"}) =>
             /\ v3protocol'.DATA = tak2cp_Event(nEvents)
             /\ envelope_text(v3protocol') \in to_cp'
             /\ sent_to_cp(tak2cp_Event(nEvents))']_vars

\* an event was deposited over an earlier one that was never sent, and it is
\* the later one that went out
C34_Witness ==
    /\ program = "tak2cp" /\ nEvents >= 2
    /\ pcCp \in {"sent", "failed"}
    /\ data_to_cp = tak2cp_Event(nEvents)
    /\ sent_to_cp(tak2cp_Event(nEvents))
    /\ ~sent_to_cp(tak2cp_Event(nEvents - 1))


\* C35: in tak2mm.py, when the write or the move of an iteration of the main
\* loop has failed, the slot the iteration took its event from is still
\* filled when the iteration ends.
C35_EventPendingAfterFailure ==
    [][(pcMain = "cleanup" /\ pcMain' = "events") =>
          Slot(branch(template_exists, sa_event_exists, pd_event_exists))' # Empty]_vars


\* The event elements WinTAK can have sent.
event_payloads == {d[2] : d \in {e \in Datagrams : Len(e) >= 2}}

\* C36: in tak2mm.py every file the main loop has moved to IMPORTS_PATH,
\* made from a template that passes is_cot_template, holds the remarks line
\* of an event.
C36_RelocatedEmbedsEvent ==
    \A f \in DOMAIN imports :
        is_cot_template(orig[f]) =>
            \E i \in 1..Len(imports[f]) : \E P \in event_payloads :
                imports[f][i] = RemarksLine(P)


\* C37: in tak2mm.py a filled slot changes only in the statement of the main
\* loop that clears the slot of the branch taken, the other slot staying as
\* it is; and the iteration that cleared it ends by giving up one template it
\* holds, after the move or in the except branch.
C37_OneEventOneTemplate ==
    [][/\ \A s \in Slots :
            (Slot(s) # Empty /\ Slot(s)' # Slot(s)) =>
                /\ pcMain = "clear_event"
                /\ s = branch(template_exists, sa_event_exists, pd_event_exists)
                /\ Slot(s)' = Empty
                /\ \A t \in Slots \ {s} : Slot(t)' = Slot(t)
       /\ (pcMain \in {"move", "cleanup"} /\ pcMain' = "events") =>
            (lines # Empty /\ lines' = Empty)]_vars


\* C38: in tak2mm.py, while lines is empty (no template is held) no step of
\* any thread changes a slot that is filled.
C38_PendingEventKept ==
    [][lines = Empty =>
          \A s \in Slots : Slot(s) # Empty => Slot(s)' = Slot(s)]_vars


\* C39: the text cpListener extracts from the document calculate_digest has
\* composed with the event P is P, so that data_from_cp is the XML prolog, a
\* line break and P.
C39_UnwrapInvertsWrap ==
    pcCp = "extracted" =>
        data_from_cp = TAK_XML_HEADER \o <<NL>> \o slashes(myPosition_event)


\* C40: in tak2msc.py a send of one category that fails with an exception
\* leaves the event and the status field of the other category as they were.
C40_FailedSendLeavesOther ==
    [][tak2msc_sendToMsgMachine_send(FALSE) =>
          /\ message_type = "position" =>
                (pntDropper_var' = pntDropper_var
                 /\ pointDropStatus_entry' = pointDropStatus_entry)
          /\ message_type = "point" =>
                (myPosition_var' = myPosition_var
                 /\ myPositionStatus_entry' = myPositionStatus_entry)]_vars

====
